---- MODULE Spec2Model ----
(***************************************************************************)
(* Model of the WeSFU relay server (src/server): the control-connection    *)
(* handler, the command dispatcher, connection teardown and the datagram   *)
(* relay, over the shared room registry, user registry and outbound        *)
(* channel map.                                                            *)
(*                                                                         *)
(* Every await on a lock or a socket is a suspension point, so a handler   *)
(* is modelled as one action per section that runs without releasing the   *)
(* lock it holds.                                                          *)
(***************************************************************************)
EXTENDS Integers, Sequences, FiniteSets, TLC

\* ------------------------------------------------------------------ bounds
NumConns == 2          \* control connections accepted during a run
MaxCmds == 3           \* commands read from all control connections (Spec)
MaxCmdsCtl == 4        \* commands read from all control connections (CtlSpec)
MaxCmdsRelay == 1      \* commands read from all control connections (RelaySpec)
MaxPackets == 2        \* datagrams received by the relay (Spec)
MaxPacketsRelay == 3   \* datagrams received by the relay (RelaySpec)
NumRoomIDs == 3        \* values the random source produces for a RoomID
NumStreamIDs == 14     \* values the random source produces for a StreamID
MaxCollisions == 1     \* draws of the random source that repeat an earlier draw
MaxBadNames == 1       \* invalid names and datagrams sent by the clients
NumAddrs == 2          \* datagram source addresses
MaxExpiries == 1        \* rate-limit windows that run out (Spec)
MaxFrames == 2         \* frames the camera produces (SendSpec)
MaxStillFrames == 62   \* frames the camera produces (StillSpec)
MaxRejoins == 5        \* times user b has left and rejoined its room before LagSpec starts
MaxCmdsLag == 2        \* commands read from all control connections (LagSpec)
MaxPacketsRate == 4    \* datagrams received by the relay (RateSpec)
RateHeadroom == 2      \* datagrams left in the first source's window when RateSpec starts
MaxWrites == 2         \* frames the client writes in the select loop (SelectSpec)
MaxReady == 1          \* messages that become ready on the outbound channel (SelectSpec)
MaxChanges == 2        \* times the camera's picture changes after its first frame (PathSpec)
MaxRxPath == 3         \* datagrams received by the listener (PathSpec)
MaxOps == 3            \* operations the server's tasks start (LockSpec)
MaxWire == 4           \* bytes a peer sends of its own choice (CodecSpec)
DeltaFrameLen == 64    \* bytes of the frames the sender computes deltas of
MaxDiffs == 2          \* bytes changed from one such frame to the next
LongFrameChunks == 2   \* chunks of the long frame the listener receives
MaxRx == 5             \* datagrams received by the listener (ListenSpec)
TickMs == 25           \* milliseconds between two readings of the clock
MaxClock == 75         \* the clock's last reading

\* ------------------------------------------------------- program constants
MAX_NAME_LENGTH == 15
RID_LEN == 4
SID_LEN == 4
ChannelCapacity == 16
MAX_PACKETS_PER_SECOND == 5000
BACKPRESSURE_THRESHOLD == 500
BATCH_SIZE == 32
ImmediateMax == 3

None == <<"None">>

Conns == 1..NumConns
RoomIDSpace == { <<0, 0, 0, i>> : i \in 1..NumRoomIDs }
StreamIDSpace == { <<7, 0, 0, i>> : i \in 1..NumStreamIDs }
Addrs == { <<"addr", i>> : i \in 1..NumAddrs }

\* Names are sequences of characters.
ValidChars == {"a", "b", "l", "d", "_", "-", "0"}
LongName == [i \in 1..(MAX_NAME_LENGTH + 1) |-> "a"]
UserNames == << <<"a">>, <<"b">> >>
BadUserNames == { <<>>, <<"a", " ", "b">>, LongName }
RoomNames == << <<"l">>, <<"d">> >>
BadRoomNames == { <<" ">>, <<"l", "!">>, LongName }

\* Names are opaque up to their validity: a client sends a name that is in use, the
\* first of the valid names that is not, or an invalid one.
FirstUnused(names, used) ==
    IF \A i \in DOMAIN names : names[i] \in used THEN {}
    ELSE { names[CHOOSE i \in DOMAIN names :
                    names[i] \notin used /\ \A j \in 1..(i - 1) : names[j] \in used] }

\* ----------------------------------------------------------------- helpers
MapPut(m, k, v) == [x \in (DOMAIN m) \cup {k} |-> IF x = k THEN v ELSE m[x]]
MapRemove(m, k) == [x \in (DOMAIN m) \ {k} |-> m[x]]
EmptyMap == [x \in {} |-> None]

Range(s) == { s[i] : i \in DOMAIN s }

\* Vec::retain(|user| user != name)
RECURSIVE Retain(_, _)
Retain(s, name) ==
    IF s = <<>> THEN <<>>
    ELSE IF Head(s) = name THEN Retain(Tail(s), name)
         ELSE <<Head(s)>> \o Retain(Tail(s), name)

\* All orders in which a HashMap can yield the elements of S.
Orders(S) ==
    { s \in [1..Cardinality(S) -> S] : \A i, j \in 1..Cardinality(S) : i # j => s[i] # s[j] }

AnyCharacters(name) == TRUE

\* shared::is_valid_name
is_valid_name(name) == \A i \in DOMAIN name : name[i] \in ValidChars

\* str::trim().is_empty()
TrimIsEmpty(name) == \A i \in DOMAIN name : name[i] = " "

\* Room::new
NewRoom(name) == [name |-> name, users |-> <<>>, video |-> EmptyMap, audio |-> EmptyMap]

\* ------------------------------------------------------------------ frames
Simple(id) == [id |-> id, kind |-> "Simple", payload |-> <<>>]
StringCmd(id, s) == [id |-> id, kind |-> "String", payload |-> s]
BytesCmd(id, b) == [id |-> id, kind |-> "Bytes", payload |-> b]

ErrorResponse(msg) == StringCmd("ErrorResponse", msg)

\* ------------------------------------------------------------------- state
VARIABLES
    users,      \* Vec<String>: the user registry
    rooms,      \* HashMap<RoomID, Room>
    txmap,      \* HashMap<String, broadcast::Sender>: username -> owning connection
    chan,       \* per connection: messages queued on its broadcast receiver
    lagged,     \* per connection: the receiver has been overrun
    pc,         \* per connection: position of its task
    uname,      \* per connection: current_username
    csid,       \* per connection: current_sid_option
    pend,       \* per connection: locals of the handler in progress
    sent,       \* per connection: frames written to its stream since its latest command was read
    cmds_left,  \* commands the clients may still send
    issued,     \* history: <<connection, StreamID>> for every StreamID generated by a join
    heard,      \* history: per connection, the StreamIDs of the OtherUserJoinedRoom frames
                \* written to it since it last joined a room, in order
    left,       \* history: per connection, the session its latest LeaveRoom ran with
    seen_rids,  \* history: the RoomIDs the random source has produced
    coll_left,  \* draws of the random source that may still repeat an earlier draw
    bad_left,   \* invalid names and datagrams the clients may still send
    last_cmd    \* history: the command read last, [conn, id, name], in the
                \* specifications that record it

ctl_vars == <<users, rooms, txmap, chan, lagged, pc, uname, csid, pend, sent, cmds_left,
              issued, heard, left, seen_rids, coll_left, bad_left, last_cmd>>

hist == <<issued, heard, left, seen_rids, coll_left, bad_left>>

VARIABLES
    udp,          \* the packet loop: its position and handle_packet's locals; between
                  \* datagrams, the latest datagram whose StreamID the lookup found
    client_stats, \* HashMap<SocketAddr, ClientStats>: packet_count per source
    batch,        \* PacketBatch::packets
    udp_out,      \* send_to calls made for the latest datagram, in order
    pkts_left,    \* datagrams that may still arrive
    exp_left,     \* rate-limit windows that may still run out
    packets_dropped, \* UdpStats::packets_dropped
    last_pkt      \* history: the latest datagram received and its source (RateSpec)

udp_vars == <<udp, client_stats, batch, udp_out, pkts_left, exp_left, packets_dropped,
              last_pkt>>

\* The client's datagram sender (udp_send_loop) and listener (udp_listener_loop).
VARIABLES
    tx,                \* udp_send_loop's locals: last_frame, sequence, heartbeat_counter
    tx_out,            \* the datagrams sent by the latest iteration of udp_send_loop, in order
    tx_prev,           \* history: last_frame as it was before the latest iteration
    still_run,         \* history: the frames read since the last one that differed from
                       \* the frame sent before it
    frames_left,       \* frames the camera may still produce
    aired,             \* history: for every frame read from the camera its sequence, its
                       \* bytes and the datagrams sent for it (PathSpec)
    fragment_buffers,  \* HashMap<StreamID, FragmentBuffer>
    frame_caches,      \* HashMap<StreamID, FrameCache>
    sid_to_frame_map,  \* HashMap<StreamID, Option<Frame>>: the encoded bytes of each peer's current frame
    now,               \* Instant::now() in milliseconds
    received,          \* history: per peer, the chunk datagrams put into its fragment buffer
    rx_left            \* datagrams that may still arrive at the listener

send_vars == <<tx, tx_out, tx_prev, still_run, frames_left, aired>>
listen_vars == <<fragment_buffers, frame_caches, sid_to_frame_map, now, received, rx_left>>

\* A control connection's stream as its two ends use it (TcpCommand::write_to_stream,
\* TcpCommand::read_from_stream) and the read side of handle_stream's select loop.
VARIABLES
    stream,      \* the bytes that have arrived at the reader and are not read yet
    arriving,    \* the bytes the peer has written that have not arrived yet
    outbox,      \* the command handed to write_to_stream
    wrote,       \* the outcome of write_to_stream: "none", "ok" or "err"
    rd,          \* the locals of the read_from_stream future being polled
    inbox,       \* the outcomes of read_from_stream so far, in order
    ready_left,  \* messages that may still become ready on the outbound channel
    written      \* history: the commands the peer has written to the stream of the
                 \* select loop, in order

stream_vars == <<stream, arriving, outbox, wrote, rd, inbox, ready_left, written>>
client_vars == <<send_vars, listen_vars, stream_vars>>
server_vars == <<ctl_vars, udp_vars>>

\* The server's tasks at the grain of their lock acquisitions, and the relay's two
\* flushing tasks at the grain of their send_to calls.
VARIABLES
    prog,        \* per task: the lock operations left of the operation it is in
    holds,       \* per task: the locks it holds, in the order it acquired them
    waitq,       \* per lock: the tasks waiting for it, first come first
    ops_left,    \* operations the tasks may still start
    loop_flush,  \* the packet loop's position and the sends its flush_batch has left
    task_flush,  \* the sends the flush task's iteration has left
    wire,        \* history: the send_to calls of both tasks, in order
    appended     \* history: the entries added to the batch, in order

lock_vars == <<prog, holds, waitq, ops_left>>
flush_vars == <<loop_flush, task_flush, wire, appended>>
fine_vars == <<lock_vars, flush_vars>>
vars == <<ctl_vars, udp_vars, client_vars, fine_vars>>

\* An invalid name or datagram uses up one of the invalid inputs the clients may send.
UseName(name, bad) ==
    /\ name \in bad => bad_left > 0
    /\ bad_left' = IF name \in bad THEN bad_left - 1 ELSE bad_left

\* The command loop has read command id with room name name on connection c.
NotRecorded == [conn |-> 0, id |-> "off", name |-> <<>>]

Track(c, id, name) ==
    last_cmd' = IF last_cmd = NotRecorded THEN NotRecorded
                ELSE [conn |-> c, id |-> id, name |-> name]

NoPend == [kind |-> "none"]

\* The receiver half of a connection's channel lives while handle_stream's loop runs.
RxAlive(c) == pc[c] \in {"loop", "joinRespond", "leaveBroadcast"}

\* The value is put in front of the queued ones.
PushFront(st, c, frame) ==
    IF ~RxAlive(c) THEN st
    ELSE [st EXCEPT !.chan[c] = <<frame>> \o @]

\* broadcast::Sender::send towards connection c (the Err of a send without receiver
\* is ignored by every caller); st = [chan, lagged].
ChanSend(st, c, frame) ==
    IF ~RxAlive(c) THEN st
    ELSE IF Len(st.chan[c]) >= ChannelCapacity
         THEN [chan |-> [st.chan EXCEPT ![c] = Append(Tail(@), frame)],
               lagged |-> [st.lagged EXCEPT ![c] = TRUE]]
         ELSE [st EXCEPT !.chan[c] = Append(@, frame)]

\* if let Some(tx) = tx_map.get(user) { tx.send(frame) } for each frame in order
RECURSIVE SendFrames(_, _, _)
SendFrames(st, user, frames) ==
    IF frames = <<>> \/ user \notin DOMAIN txmap THEN st
    ELSE SendFrames(ChanSend(st, txmap[user], Head(frames)), user, Tail(frames))

\* for user in list { ... send frames ... }
RECURSIVE Broadcast(_, _, _)
Broadcast(st, list, frames) ==
    IF list = <<>> THEN st
    ELSE Broadcast(SendFrames(st, Head(list), frames), Tail(list), frames)

\* A write of one frame to the connection's stream, back in the command loop.  A
\* stream that fails ends handle_stream as a failed read does (Disconnect); the
\* failure is modelled at the write where it changes what other connections see
\* (JoinRespond).
Reply(c, frame) ==
    /\ sent' = [sent EXCEPT ![c] = <<frame>>]
    /\ pc' = [pc EXCEPT ![c] = "loop"]

\* handle_stream goes back to its loop instead of returning.
StayOpen(c) ==
    /\ pc' = [pc EXCEPT ![c] = "loop"]
    /\ sent' = [sent EXCEPT ![c] = <<>>]
    /\ heard' = [heard EXCEPT ![c] = <<>>]

\* handle_stream returns: the stream is gone, and with it what was written to it.
Close(c) ==
    /\ pc' = [pc EXCEPT ![c] = "teardown"]
    /\ sent' = [sent EXCEPT ![c] = <<>>]
    /\ heard' = [heard EXCEPT ![c] = <<>>]

\* rand::fill on an identifier.  Identifiers are opaque (only equality is observed),
\* so a draw either repeats a value drawn before or is represented by the least
\* value not drawn yet.
Draw(space, seen) ==
    (seen \cap space) \cup
    (IF space \ seen = {} THEN {}
     ELSE { CHOOSE x \in space \ seen : \A y \in space \ seen : x[4] <= y[4] })

SeenSids == { issued[i][2] : i \in DOMAIN issued }

Repeat(x, seen) == IF x \in seen THEN 1 ELSE 0

\* WeSFU::new and WeSFU::listen's accept: empty registries, connections accepted
\* and not yet heard from
Constructed ==
    /\ users = <<>>
    /\ rooms = EmptyMap
    /\ txmap = EmptyMap
    /\ chan = [c \in Conns |-> <<>>]
    /\ lagged = [c \in Conns |-> FALSE]
    /\ pc = [c \in Conns |-> "accepted"]
    /\ uname = [c \in Conns |-> None]
    /\ csid = [c \in Conns |-> None]
    /\ pend = [c \in Conns |-> NoPend]
    /\ sent = [c \in Conns |-> <<>>]
    /\ issued = <<>>
    /\ left = [c \in Conns |-> None]
    /\ heard = [c \in Conns |-> <<>>]
    /\ seen_rids = {}

\* ---------------------------------------------------------------- handshake
\* Connections are numbered in the order in which their first frame is handled.
HelloNames ==
    LET used == { uname[c] : c \in Conns } \ {None}
    IN  used \cup FirstUnused(UserNames, used) \cup BadUserNames

AlwaysWelcome(username) == "ok"

\* TcpHandler::handle_handshake: the reason a username is refused, or "ok"
HandshakeVerdict(username) ==
    IF Len(username) > MAX_NAME_LENGTH THEN "Username must be less than or equal to 15 characters."
    ELSE IF ~is_valid_name(username)
         THEN "Username must contain only letters, numbers, underscores (_), or hyphens (-)."
    ELSE IF username \in Range(users) THEN "Username is already taken."
    ELSE "ok"

\* handle_handshake on HelloFromClient(username); a refusal ends in Ok(None) and the
\* task ends with current_username_option = None.
Handshake(c) ==
    /\ pc[c] = "accepted"
    /\ \A c2 \in 1..(c - 1) : pc[c2] # "accepted"
    /\ \E username \in HelloNames :
         LET verdict == HandshakeVerdict(username) IN
         /\ UseName(username, BadUserNames)
         /\ Track(c, "HelloFromClient", username)
         /\ IF verdict = "ok"
            THEN /\ sent' = [sent EXCEPT ![c] = Append(@, Simple("HelloFromServer"))]
                 /\ pc' = [pc EXCEPT ![c] = "helloed"]
                 /\ uname' = [uname EXCEPT ![c] = username]
            ELSE /\ sent' = [sent EXCEPT ![c] = Append(@, ErrorResponse(verdict))]
                 /\ pc' = [pc EXCEPT ![c] = "closed"]
                 /\ uname' = uname
    /\ UNCHANGED <<users, rooms, txmap, chan, lagged, csid, pend, cmds_left, issued, heard, left,
                   seen_rids, coll_left>>
    /\ UNCHANGED <<udp_vars, client_vars, fine_vars>>

\* The first read yields EOF or an error or a frame that is not HelloFromClient, or
\* the write of the answer fails.
HandshakeAbort(c) ==
    /\ pc[c] = "accepted"
    /\ \A c2 \in 1..(c - 1) : pc[c2] # "accepted"
    /\ pc' = [pc EXCEPT ![c] = "closed"]
    /\ UNCHANGED <<users, rooms, txmap, chan, lagged, uname, csid, pend, sent, cmds_left, hist>>
    /\ UNCHANGED <<udp_vars, last_cmd, client_vars, fine_vars>>

\* handle_stream lines 34-35: users.write().await.push(current_username)
Register(c) ==
    /\ pc[c] = "helloed"
    /\ users' = Append(users, uname[c])
    /\ pc' = [pc EXCEPT ![c] = "registered"]
    /\ UNCHANGED <<rooms, txmap, chan, lagged, uname, csid, pend, sent, cmds_left, hist>>
    /\ UNCHANGED <<udp_vars, last_cmd, client_vars, fine_vars>>

\* handle_stream lines 38-43: create the channel, insert its sender under the username
InsertTx(c) ==
    /\ pc[c] = "registered"
    /\ txmap' = MapPut(txmap, uname[c], c)
    /\ chan' = [chan EXCEPT ![c] = <<>>]
    /\ pc' = [pc EXCEPT ![c] = "loop"]
    /\ UNCHANGED <<users, rooms, lagged, uname, csid, pend, sent, cmds_left, hist>>
    /\ UNCHANGED <<udp_vars, last_cmd, client_vars, fine_vars>>

\* ----------------------------------------------------------------- commands
\* The command loop's read branch is ready with a decoded command.
CanRead(c) == pc[c] = "loop" /\ cmds_left > 0

RoomNameInputs ==
    LET used == { rooms[rid].name : rid \in DOMAIN rooms }
    IN  used \cup FirstUnused(RoomNames, used) \cup BadRoomNames

NoRoomsNamed(room_name) == {}

RoomsNamed(room_name) == { rid \in DOMAIN rooms : rooms[rid].name = room_name }

\* TcpCommandHandler::handle_create_room; room_id is the outcome of fill(&mut room_id)
CmdCreateRoom(c) ==
    /\ CanRead(c)
    /\ cmds_left' = cmds_left - 1
    /\ \E room_name \in RoomNameInputs :
         /\ UseName(room_name, BadRoomNames)
         /\ Track(c, "CreateRoom", room_name)
         /\ IF TrimIsEmpty(room_name)
            THEN /\ Reply(c, ErrorResponse(<<"Room name cannot be empty">>))
                 /\ UNCHANGED <<rooms, seen_rids, coll_left>>
            ELSE IF Len(room_name) > MAX_NAME_LENGTH
            THEN /\ Reply(c, ErrorResponse(<<"Room name must be less than or equal to 15 characters.">>))
                 /\ UNCHANGED <<rooms, seen_rids, coll_left>>
            ELSE IF ~is_valid_name(room_name)
            THEN /\ Reply(c, ErrorResponse(<<"Room name must contain only letters, numbers, underscores (_), or hyphens (-).">>))
                 /\ UNCHANGED <<rooms, seen_rids, coll_left>>
            ELSE IF RoomsNamed(room_name) # {}
            THEN /\ Reply(c, ErrorResponse(<<"Room '", room_name, "' already exists">>))
                 /\ UNCHANGED <<rooms, seen_rids, coll_left>>
            ELSE \E room_id \in Draw(RoomIDSpace, seen_rids) :
                 /\ Repeat(room_id, seen_rids) <= coll_left
                 /\ coll_left' = coll_left - Repeat(room_id, seen_rids)
                 /\ seen_rids' = seen_rids \cup {room_id}
                 /\ rooms' = MapPut(rooms, room_id, NewRoom(room_name))
                 /\ Reply(c, Simple("CreateRoomSuccess"))
    /\ UNCHANGED <<users, txmap, chan, lagged, uname, csid, pend, issued, heard, left>>
    /\ UNCHANGED <<udp_vars, client_vars, fine_vars>>

HasNoUsers(user_count) == FALSE

\* handle_delete_room line 186: if user_count > 0
HasUsers(user_count) == user_count > 0

\* TcpCommandHandler::handle_delete_room
CmdDeleteRoom(c) ==
    /\ CanRead(c)
    /\ cmds_left' = cmds_left - 1
    /\ \E room_name \in RoomNameInputs :
         /\ UseName(room_name, BadRoomNames)
         /\ Track(c, "DeleteRoom", room_name)
         /\ IF TrimIsEmpty(room_name)
            THEN /\ Reply(c, ErrorResponse(<<"Room name cannot be empty">>))
                 /\ rooms' = rooms
            ELSE IF RoomsNamed(room_name) = {}
            THEN /\ Reply(c, ErrorResponse(<<"Room '", room_name, "' does not exist">>))
                 /\ rooms' = rooms
            ELSE \E room_id \in RoomsNamed(room_name) :
                   IF HasUsers(Len(rooms[room_id].users))
                   THEN /\ Reply(c, ErrorResponse(<<"Room '", room_name, "' cannot be deleted because it still has ",
                                                    Len(rooms[room_id].users), " active user(s).">>))
                        /\ rooms' = rooms
                   ELSE /\ rooms' = MapRemove(rooms, room_id)
                        /\ Reply(c, Simple("DeleteRoomSuccess"))
    /\ UNCHANGED <<users, txmap, chan, lagged, uname, csid, pend, issued, heard, left,
                   seen_rids, coll_left>>
    /\ UNCHANGED <<udp_vars, client_vars, fine_vars>>

\* handle_join_room lines 247-258: the room after the join's write-locked section
JoinedRoom(room, username, video_sid, audio_sid) ==
    [room EXCEPT !.video = MapPut(@, video_sid, None),
                 !.audio = MapPut(@, audio_sid, None),
                 !.users = Append(@, username)]

\* handle_join_room lines 230-271: the name check, the two fill() calls and the
\* section under the room registry's write lock.  The snapshots of the stream
\* tables' keys come in the HashMap's iteration order.
CmdJoinRoom(c) ==
    /\ CanRead(c)
    /\ cmds_left' = cmds_left - 1
    /\ \E room_name \in RoomNameInputs :
         /\ UseName(room_name, BadRoomNames)
         /\ Track(c, "JoinRoom", room_name)
         /\ IF TrimIsEmpty(room_name)
            THEN /\ Reply(c, ErrorResponse(<<"Room name cannot be empty">>))
                 /\ UNCHANGED <<rooms, csid, pend, issued, heard, left, coll_left>>
            ELSE IF RoomsNamed(room_name) = {}
            THEN /\ Reply(c, ErrorResponse(<<"Room '", room_name, "' does not exist">>))
                 /\ UNCHANGED <<rooms, csid, pend, issued, heard, left, coll_left>>
            ELSE \E room_id \in RoomsNamed(room_name) :
                 \E video_sid \in Draw(StreamIDSpace, SeenSids) :
                 \E audio_sid \in Draw(StreamIDSpace, SeenSids \cup {video_sid}) :
                 \E other_video_sids \in Orders(DOMAIN rooms[room_id].video),
                    other_audio_sids \in Orders(DOMAIN rooms[room_id].audio) :
                   /\ Repeat(video_sid, SeenSids)
                        + Repeat(audio_sid, SeenSids \cup {video_sid}) <= coll_left
                   /\ coll_left' = coll_left - Repeat(video_sid, SeenSids)
                                             - Repeat(audio_sid, SeenSids \cup {video_sid})
                   /\ rooms' = [rooms EXCEPT ![room_id] =
                                   JoinedRoom(@, uname[c], video_sid, audio_sid)]
                   /\ csid' = [csid EXCEPT ![c] = <<video_sid, audio_sid>>]
                   /\ pend' = [pend EXCEPT ![c] =
                                   [kind |-> "join", rid |-> room_id,
                                    video_sid |-> video_sid, audio_sid |-> audio_sid,
                                    other_users |-> rooms[room_id].users,
                                    other_video_sids |-> other_video_sids,
                                    other_audio_sids |-> other_audio_sids]]
                   /\ pc' = [pc EXCEPT ![c] = "joinRespond"]
                   /\ issued' = issued \o << <<c, video_sid>>, <<c, audio_sid>> >>
                   /\ left' = [left EXCEPT ![c] = None]
                   /\ heard' = [heard EXCEPT ![c] = <<>>]
                   /\ sent' = [sent EXCEPT ![c] = <<>>]
    /\ UNCHANGED <<users, txmap, chan, lagged, uname, seen_rids>>
    /\ UNCHANGED <<udp_vars, client_vars, fine_vars>>

\* handle_join_room lines 275-278
JoinRoomSuccessPayload(rid, video_sid, audio_sid) == rid \o video_sid \o rid \o audio_sid

OtherUserJoinedRoom(sid) == BytesCmd("OtherUserJoinedRoom", sid)
OtherUserLeftRoom(sid) == BytesCmd("OtherUserLeftRoom", sid)

\* handle_join_room lines 273-308: JoinRoomSuccess to the joiner, the new StreamIDs
\* to the snapshotted members' channels, the snapshotted StreamIDs to the joiner.
\* A failed write (the first, or one of the joiner's notifications) ends
\* handle_stream.
JoinRespond(c) ==
    /\ pc[c] = "joinRespond"
    /\ LET p == pend[c]
           success == BytesCmd("JoinRoomSuccess",
                               JoinRoomSuccessPayload(p.rid, p.video_sid, p.audio_sid))
           old_sids == p.other_video_sids \o p.other_audio_sids
           old == [i \in DOMAIN old_sids |-> OtherUserJoinedRoom(old_sids[i])]
           st == Broadcast([chan |-> chan, lagged |-> lagged], p.other_users,
                           <<OtherUserJoinedRoom(p.video_sid), OtherUserJoinedRoom(p.audio_sid)>>)
       IN  \/ /\ Close(c)
              /\ UNCHANGED <<chan, lagged>>
           \/ /\ old # <<>>
              /\ Close(c)
              /\ chan' = st.chan
              /\ lagged' = st.lagged
           \/ /\ sent' = [sent EXCEPT ![c] = <<success>> \o old]
              /\ heard' = [heard EXCEPT ![c] = old_sids]
              /\ chan' = st.chan
              /\ lagged' = st.lagged
              /\ pc' = [pc EXCEPT ![c] = "loop"]
    /\ pend' = [pend EXCEPT ![c] = NoPend]
    /\ UNCHANGED <<users, rooms, txmap, uname, csid, cmds_left, issued, left, seen_rids, coll_left,
                   bad_left>>
    /\ UNCHANGED <<udp_vars, last_cmd, client_vars, fine_vars>>

\* handle_leave_room lines 335-364: the scan over map_guard.values_mut(), in the
\* order the HashMap yields the rooms; out = [rooms, found, leaving, affected]
RECURSIVE LeaveScan(_, _, _, _, _)
LeaveScan(order, out, video_sid, audio_sid, username) ==
    IF order = <<>> THEN out
    ELSE LET rid == Head(order)
             room == out.rooms[rid]
         IN  IF video_sid \in DOMAIN room.video
             THEN LET users2 == Retain(room.users, username) IN
                  [rooms |-> [out.rooms EXCEPT ![rid] =
                                 [room EXCEPT !.video = MapRemove(@, video_sid),
                                              !.users = users2]],
                   found |-> TRUE, leaving |-> TRUE, affected |-> users2]
             ELSE IF audio_sid \in DOMAIN room.video
             THEN LET users2 == Retain(room.users, username) IN
                  [rooms |-> [out.rooms EXCEPT ![rid] =
                                 [room EXCEPT !.video = MapRemove(@, audio_sid),
                                              !.users = users2]],
                   found |-> TRUE, leaving |-> FALSE, affected |-> users2]
             ELSE LeaveScan(Tail(order), out, video_sid, audio_sid, username)

\* handle_leave_room lines 324-365.  Without a current session the handler returns
\* Err("No sid found"), which ends handle_stream.
CmdLeaveRoom(c) ==
    /\ CanRead(c)
    /\ cmds_left' = cmds_left - 1
    /\ Track(c, "LeaveRoom", <<>>)
    /\ IF csid[c] = None
       THEN /\ Close(c)
            /\ UNCHANGED <<rooms, csid, pend>>
       ELSE \E order \in Orders(DOMAIN rooms) :
              LET out == LeaveScan(order,
                                   [rooms |-> rooms, found |-> FALSE, leaving |-> FALSE,
                                    affected |-> <<>>],
                                   csid[c][1], csid[c][2], uname[c])
              IN  /\ rooms' = out.rooms
                  /\ csid' = [csid EXCEPT ![c] = IF out.found THEN None ELSE @]
                  /\ pend' = [pend EXCEPT ![c] =
                                 [kind |-> "leave", session |-> csid[c],
                                  leaving |-> out.leaving, affected |-> out.affected]]
                  /\ pc' = [pc EXCEPT ![c] = "leaveBroadcast"]
                  /\ sent' = [sent EXCEPT ![c] = <<>>]
                  /\ heard' = heard
    /\ UNCHANGED <<users, txmap, chan, lagged, uname, issued, left, seen_rids, coll_left,
                   bad_left>>
    /\ UNCHANGED <<udp_vars, client_vars, fine_vars>>

\* handle_leave_room lines 367-378
LeaveBroadcast(c) ==
    /\ pc[c] = "leaveBroadcast"
    /\ LET p == pend[c]
           st == IF p.leaving
                 THEN Broadcast([chan |-> chan, lagged |-> lagged], p.affected,
                                <<OtherUserLeftRoom(p.session[1])>>)
                 ELSE [chan |-> chan, lagged |-> lagged]
       IN  /\ chan' = st.chan
           /\ lagged' = st.lagged
           /\ left' = [left EXCEPT ![c] = p.session]
    /\ pend' = [pend EXCEPT ![c] = NoPend]
    /\ pc' = [pc EXCEPT ![c] = "loop"]
    /\ UNCHANGED <<users, rooms, txmap, uname, csid, sent, cmds_left, issued, heard, seen_rids,
                   coll_left, bad_left>>
    /\ UNCHANGED <<udp_vars, last_cmd, client_vars, fine_vars>>

\* The command loop's recv branch, handle_stream lines 66-71: a lagged or closed
\* channel is an error that ends handle_stream, as is a failed write.
ForwardOutbound(c) ==
    /\ pc[c] = "loop"
    /\ IF lagged[c]
       THEN /\ Close(c)
            /\ chan' = chan
       ELSE IF chan[c] # <<>>
       THEN /\ chan' = [chan EXCEPT ![c] = Tail(@)]
            /\ sent' = [sent EXCEPT ![c] = Append(@, Head(chan[c]))]
            /\ heard' = [heard EXCEPT ![c] =
                             IF Head(chan[c]).id = "OtherUserJoinedRoom"
                             THEN Append(@, Head(chan[c]).payload) ELSE @]
            /\ pc' = pc
       ELSE /\ \A u \in DOMAIN txmap : txmap[u] # c
            /\ Close(c)
            /\ chan' = chan
    /\ UNCHANGED <<users, rooms, txmap, lagged, uname, csid, pend, cmds_left, issued, left,
                   seen_rids, coll_left, bad_left>>
    /\ UNCHANGED <<udp_vars, last_cmd, client_vars, fine_vars>>

\* The command loop's read branch yields EOF or a read/decode error.
Disconnect(c) ==
    /\ pc[c] = "loop"
    /\ Close(c)
    /\ UNCHANGED <<users, rooms, txmap, chan, lagged, uname, csid, pend, cmds_left, issued, left,
                   seen_rids, coll_left, bad_left>>
    /\ UNCHANGED <<udp_vars, last_cmd, client_vars, fine_vars>>

\* ----------------------------------------------------------------- teardown
\* WeSFU::listen line 83; handle_stream has returned, its receiver is dropped
TeardownUsers(c) ==
    /\ pc[c] = "teardown"
    /\ users' = Retain(users, uname[c])
    /\ chan' = [chan EXCEPT ![c] = <<>>]
    /\ lagged' = [lagged EXCEPT ![c] = FALSE]
    /\ pc' = [pc EXCEPT ![c] = "teardownTx"]
    /\ UNCHANGED <<rooms, txmap, uname, csid, pend, sent, cmds_left, hist>>
    /\ UNCHANGED <<udp_vars, last_cmd, client_vars, fine_vars>>

\* WeSFU::listen lines 84-87
TeardownTx(c) ==
    /\ pc[c] = "teardownTx"
    /\ txmap' = MapRemove(txmap, uname[c])
    /\ pc' = [pc EXCEPT ![c] = IF csid[c] = None THEN "closed" ELSE "teardownRooms"]
    /\ UNCHANGED <<users, rooms, chan, lagged, uname, csid, pend, sent, cmds_left, hist>>
    /\ UNCHANGED <<udp_vars, last_cmd, client_vars, fine_vars>>

\* WeSFU::listen lines 91-108 for the rooms in iteration order; sid is the session's
\* first StreamID and the table is the one the datagram relay's same-named block
\* (udp_handler.rs line 267) reads as video_stream_id_to_socket_addr.
\* out = [rooms, st]
RECURSIVE TeardownScan(_, _, _, _)
TeardownScan(order, out, sid, username) ==
    IF order = <<>> THEN out
    ELSE LET rid == Head(order)
             room == out.rooms[rid]
         IN  IF sid \in DOMAIN room.video
             THEN LET users2 == Retain(room.users, username) IN
                  TeardownScan(Tail(order),
                               [rooms |-> [out.rooms EXCEPT ![rid] =
                                              [room EXCEPT !.video = MapRemove(@, sid),
                                                           !.users = users2]],
                                st |-> Broadcast(out.st, users2, <<OtherUserLeftRoom(sid)>>)],
                               sid, username)
             ELSE TeardownScan(Tail(order), out, sid, username)

\* WeSFU::listen lines 89-111
TeardownRooms(c) ==
    /\ pc[c] = "teardownRooms"
    /\ \E order \in Orders(DOMAIN rooms) :
         LET out == TeardownScan(order,
                                 [rooms |-> rooms, st |-> [chan |-> chan, lagged |-> lagged]],
                                 csid[c][1], uname[c])
         IN  /\ rooms' = out.rooms
             /\ chan' = out.st.chan
             /\ lagged' = out.st.lagged
    /\ pc' = [pc EXCEPT ![c] = "closed"]
    /\ UNCHANGED <<users, txmap, uname, csid, pend, sent, cmds_left, hist>>
    /\ UNCHANGED <<udp_vars, last_cmd, client_vars, fine_vars>>

\* ------------------------------------------------------------ datagram relay
UnknownRid == <<9, 9, 9, 9>>
UnknownSid == <<9, 9, 9, 8>>
Media == <<170>>

\* A minimum that asks for no byte after the two identifiers.
IdentifiersOnly == RID_LEN + SID_LEN

min_packet_size == RID_LEN + SID_LEN + 1

TableSids == UNION { (DOMAIN rooms[rid].video) \cup (DOMAIN rooms[rid].audio) : rid \in DOMAIN rooms }

\* The datagrams a client may send: for every room every StreamID of any room, and
\* the invalid ones: too short, for a room or a StreamID the server does not know.
BadDatagrams ==
    { UnknownRid \o UnknownSid, (UnknownRid \o UnknownSid) \o Media }
    \cup { (rid \o UnknownSid) \o Media : rid \in DOMAIN rooms }
    \cup { rid \o sid : rid \in DOMAIN rooms, sid \in TableSids }
    \cup { <<>> }

Datagrams == BadDatagrams \cup { (rid \o sid) \o Media : rid \in DOMAIN rooms, sid \in TableSids }

\* Source addresses are opaque: a datagram comes from an address that has sent
\* before or from the first address that has not.
FromAddrs ==
    LET known == DOMAIN client_stats
    IN  known \cup (IF Addrs \ known = {} THEN {}
                    ELSE { CHOOSE a \in Addrs \ known : \A b \in Addrs \ known : a[2] <= b[2] })

\* No datagram has been received yet.
NoPkt == [buf |-> <<>>, from_addr |-> None]

IdleUdp == [pc |-> "recv", buf |-> <<>>, from_addr |-> None, rid |-> None, sid |-> None,
            map_type |-> "none", needs_update |-> FALSE, to_addrs |-> <<>>]

\* An entry test that takes every entry for an absent one.
AbsentOrStale(entry) == TRUE

\* Option::is_none on a stream table entry
Absent(entry) == entry = None

\* A collection that does not skip the datagram's own StreamID.
CollectOwnToo(table, sid, order) ==
    LET RECURSIVE Go(_)
        Go(o) == IF o = <<>> THEN <<>>
                 ELSE IF table[Head(o)] # None
                      THEN <<table[Head(o)]>> \o Go(Tail(o))
                      ELSE Go(Tail(o))
    IN  Go(order)

\* handle_packet lines 203-209 / 216-222: the known addresses of the other StreamIDs,
\* in the order the HashMap yields its entries
Collect(table, sid, order) ==
    LET RECURSIVE Go(_)
        Go(o) == IF o = <<>> THEN <<>>
                 ELSE IF Head(o) # sid /\ table[Head(o)] # None
                      THEN <<table[Head(o)]>> \o Go(Tail(o))
                      ELSE Go(Tail(o))
    IN  Go(order)

\* handle_packet lines 210 / 223-224
NeedsUpdate(table, sid) == IF sid \in DOMAIN table THEN Absent(table[sid]) ELSE TRUE

\* handle_packet lines 245-249 / 253-257 / 268-272
Learn(table, sid, from_addr) ==
    IF sid \in DOMAIN table /\ Absent(table[sid])
    THEN [table EXCEPT ![sid] = from_addr]
    ELSE table

\* A count that no expiry of the window resets.
NeverReset(addr, expired) ==
    IF addr \in DOMAIN client_stats THEN client_stats[addr] + 1 ELSE 1

\* UdpHandler::check_rate_limit: the packet count of the source after this packet;
\* expired tells whether its window started at least RATE_LIMIT_WINDOW ago
RateCount(addr, expired) ==
    IF addr \in DOMAIN client_stats /\ ~expired THEN client_stats[addr] + 1 ELSE 1

\* handle_packet line 280
ForwardPayload(buf) ==
    SubSeq(buf, RID_LEN + 1, RID_LEN + SID_LEN) \o SubSeq(buf, RID_LEN + SID_LEN + 1, Len(buf))

\* UdpHandler::flush_batch lines 347-373: every payload to each of its destinations,
\* grouped by destination in the order dests
FlushSends(packets, dests) ==
    LET RECURSIVE ForDest(_, _)
        ForDest(ps, d) ==
            IF ps = <<>> THEN <<>>
            ELSE LET n == Cardinality({ i \in DOMAIN Head(ps)[2] : Head(ps)[2][i] = d })
                 IN  [i \in 1..n |-> [dest |-> d, bytes |-> Head(ps)[1]]] \o ForDest(Tail(ps), d)
        RECURSIVE All(_)
        All(ds) == IF ds = <<>> THEN <<>> ELSE ForDest(packets, Head(ds)) \o All(Tail(ds))
    IN  All(dests)

BatchDests(packets) == UNION { Range(packets[i][2]) : i \in DOMAIN packets }

\* handle_packet lines 276-301 with send_immediate and flush_batch; timeout tells
\* whether BATCH_TIMEOUT has elapsed since the last flush
Forward(buf, to_addrs) ==
    IF to_addrs = <<>>
    THEN /\ udp_out' = <<>>
         /\ UNCHANGED <<batch, packets_dropped>>
    ELSE IF Len(batch) >= BACKPRESSURE_THRESHOLD
    THEN /\ udp_out' = <<>>
         /\ batch' = batch
         /\ packets_dropped' = packets_dropped + 1
    ELSE IF Len(to_addrs) <= ImmediateMax
    THEN /\ udp_out' = [i \in DOMAIN to_addrs |->
                           [dest |-> to_addrs[i], bytes |-> ForwardPayload(buf)]]
         /\ UNCHANGED <<batch, packets_dropped>>
    ELSE LET batch2 == Append(batch, <<ForwardPayload(buf), to_addrs>>) IN
         /\ packets_dropped' = packets_dropped
         /\ \E timeout \in BOOLEAN :
               IF Len(batch2) >= BATCH_SIZE \/ timeout
               THEN /\ batch' = <<>>
                    /\ \E dests \in Orders(BatchDests(batch2)) :
                          udp_out' = FlushSends(batch2, dests)
               ELSE /\ batch' = batch2
                    /\ udp_out' = <<>>

\* handle_packet lines 195-228: which table of the room holds the StreamID
MapType(rid, sid) ==
    IF rid \notin DOMAIN rooms THEN "none"
    ELSE IF sid \in DOMAIN rooms[rid].video THEN "video"
    ELSE IF sid \in DOMAIN rooms[rid].audio THEN "audio"
    ELSE "none"

\* handle_packet lines 170-233, and lines 276-301 when no address is to be learned:
\* size check, rate limit, decoding and the lookup under the registry's read lock
UdpReceive ==
    /\ udp.pc = "recv"
    /\ pkts_left > 0
    /\ pkts_left' = pkts_left - 1
    /\ \E buf \in Datagrams, from_addr \in FromAddrs, expired \in BOOLEAN :
         /\ UseName(buf, BadDatagrams)
         /\ last_pkt' = IF last_pkt = NotRecorded THEN NotRecorded
                         ELSE [buf |-> buf, from_addr |-> from_addr]
         /\ expired => from_addr \in DOMAIN client_stats /\ exp_left > 0
         /\ exp_left' = IF expired THEN exp_left - 1 ELSE exp_left
         /\ IF Len(buf) < min_packet_size
            THEN /\ ~expired
                 /\ udp' = IdleUdp
                 /\ udp_out' = <<>>
                 /\ UNCHANGED <<client_stats, batch, packets_dropped>>
            ELSE /\ client_stats' = MapPut(client_stats, from_addr, RateCount(from_addr, expired))
                 /\ IF RateCount(from_addr, expired) > MAX_PACKETS_PER_SECOND
                    THEN /\ udp' = IdleUdp
                         /\ udp_out' = <<>>
                         /\ batch' = batch
                         /\ packets_dropped' = packets_dropped + 1
                    ELSE LET rid == SubSeq(buf, 1, RID_LEN)
                             sid == SubSeq(buf, RID_LEN + 1, RID_LEN + SID_LEN)
                             map_type == MapType(rid, sid)
                         IN  IF map_type = "none"
                             THEN /\ udp' = IdleUdp
                                  /\ udp_out' = <<>>
                                  /\ UNCHANGED <<batch, packets_dropped>>
                             ELSE LET table == rooms[rid][map_type] IN
                                  \E order \in Orders(DOMAIN table) :
                                     LET to_addrs == Collect(table, sid, order)
                                         needs_update == NeedsUpdate(table, sid)
                                     IN  /\ udp' = IF needs_update
                                                    THEN [pc |-> "update",
                                                          buf |-> buf, from_addr |-> from_addr,
                                                          rid |-> rid, sid |-> sid,
                                                          map_type |-> map_type,
                                                          needs_update |-> needs_update,
                                                          to_addrs |-> to_addrs]
                                                    ELSE [IdleUdp EXCEPT !.buf = buf,
                                                                         !.from_addr = from_addr]
                                         /\ IF needs_update
                                            THEN /\ udp_out' = <<>>
                                                 /\ UNCHANGED <<batch, packets_dropped>>
                                            ELSE Forward(buf, to_addrs)
    /\ UNCHANGED <<client_vars, fine_vars, last_cmd, users, rooms, txmap, chan, lagged, pc, uname, csid, pend, sent, cmds_left,
                   issued, heard, left, seen_rids, coll_left>>

\* handle_packet lines 239-262: under the write lock, the table the lookup chose
UdpUpdate ==
    /\ udp.pc = "update"
    /\ rooms' = IF udp.rid \in DOMAIN rooms
                THEN [rooms EXCEPT ![udp.rid][udp.map_type] = Learn(@, udp.sid, udp.from_addr)]
                ELSE rooms
    /\ udp' = [udp EXCEPT !.pc = "update2"]
    /\ UNCHANGED <<client_vars, fine_vars, last_cmd, users, txmap, chan, lagged, pc, uname, csid, pend, sent, cmds_left, hist>>
    /\ UNCHANGED <<client_stats, batch, udp_out, pkts_left, exp_left, packets_dropped, last_pkt>>

\* handle_packet lines 264-274, under the write lock again: the video table; then
\* lines 276-301
UdpUpdate2 ==
    /\ udp.pc = "update2"
    /\ rooms' = IF udp.rid \in DOMAIN rooms
                THEN [rooms EXCEPT ![udp.rid].video = Learn(@, udp.sid, udp.from_addr)]
                ELSE rooms
    /\ udp' = [IdleUdp EXCEPT !.buf = udp.buf, !.from_addr = udp.from_addr]
    /\ Forward(udp.buf, udp.to_addrs)
    /\ UNCHANGED <<client_vars, fine_vars, last_cmd, users, txmap, chan, lagged, pc, uname, csid, pend, sent, cmds_left, hist>>
    /\ UNCHANGED <<client_stats, pkts_left, exp_left, last_pkt>>

UdpNext == UdpReceive \/ UdpUpdate \/ UdpUpdate2

InitUdp ==
    /\ udp = IdleUdp
    /\ client_stats = EmptyMap
    /\ batch = <<>>
    /\ udp_out = <<>>
    /\ packets_dropped = 0
    /\ last_pkt = NotRecorded

\* ------------------------------------------------------------------ client
\* src/client/src/udp_handler.rs
CHUNK_SIZE == 1350
CHUNK_TIMEOUT == 50
MIN_BLOCK_SIZE == 64
SEQUENCE_WRAP == 1000000
HEARTBEAT_INTERVAL == 30
\* DELTA_THRESHOLD: f32 = 0.3, as the fraction it is used for
DELTA_THRESHOLD_NUM == 3
DELTA_THRESHOLD_DEN == 10
\* Frame::from_bytes: the header of width, height and compressed length
FRAME_HEADER_LEN == 12

FrameTypeFull == 0
FrameTypeDelta == 1
FrameTypeHeartbeat == 2

\* u32::to_be_bytes and u32::from_be_bytes (the lengths, offsets and counters of
\* the frames modelled here are far below 2^31)
to_be_bytes(n) ==
    <<(n \div 16777216) % 256, (n \div 65536) % 256, (n \div 256) % 256, n % 256>>

from_be_bytes(b) == b[1] * 16777216 + b[2] * 65536 + b[3] * 256 + b[4]

\* Bytes i..j-1 of data, counted from 0 as a slice data[i..j] is.
Slice(data, i, j) == SubSeq(data, i + 1, j)

Min(a, b) == IF a < b THEN a ELSE b

\* The first index from i on at which the frames differ (SkipEqual) or agree
\* (SkipDiffering), or their length: the two inner while loops of
\* create_delta_optimized.
SkipEqual(old_frame, new_frame, i) ==
    LET len == Len(new_frame)
        stops == { j \in i..len : j = len \/ old_frame[j + 1] # new_frame[j + 1] }
    IN  CHOOSE j \in stops : \A k \in stops : j <= k

SkipDiffering(old_frame, new_frame, i) ==
    LET len == Len(new_frame)
        stops == { j \in i..len : j = len \/ old_frame[j + 1] = new_frame[j + 1] }
    IN  CHOOSE j \in stops : \A k \in stops : j <= k

\* create_delta_optimized lines 127-135: the count of equal bytes from i on, at most
\* lookahead of them
IdenticalCount(old_frame, new_frame, i, lookahead) ==
    Min(SkipEqual(old_frame, new_frame, i) - i, lookahead)

NoDelta == [some |-> FALSE, deltas |-> <<>>]

TwiceLen(len) == 2 * len

\* (new_frame.len() as f32 * DELTA_THRESHOLD) as usize
threshold_size(len) == (len * DELTA_THRESHOLD_NUM) \div DELTA_THRESHOLD_DEN

FirstRunOnly(old_frame, new_frame, i, deltas, total_delta_size) ==
    LET start == SkipEqual(old_frame, new_frame, i)
    IN  [some |-> TRUE,
         deltas |-> IF start >= Len(new_frame) THEN <<>>
                    ELSE <<[offset |-> start,
                            data |-> Slice(new_frame, start,
                                           SkipDiffering(old_frame, new_frame, start))]>>]

\* create_delta_optimized lines 113-157: the outer while loop from index i with the
\* chunks collected so far
RECURSIVE DeltaLoop(_, _, _, _, _)
DeltaLoop(old_frame, new_frame, i, deltas, total_delta_size) ==
    LET len == Len(new_frame)
        start == SkipEqual(old_frame, new_frame, i)
    IN  IF start >= len THEN [some |-> TRUE, deltas |-> deltas]
        ELSE LET i2 == SkipDiffering(old_frame, new_frame, start)
                 lookahead == Min(MIN_BLOCK_SIZE, len - i2)
                 identical_count == IdenticalCount(old_frame, new_frame, i2, lookahead)
                 i3 == IF identical_count < MIN_BLOCK_SIZE \div 4
                       THEN SkipDiffering(old_frame, new_frame, i2 + identical_count)
                       ELSE i2
                 chunk_size == i3 - start
                 total == total_delta_size + chunk_size + 8
             IN  IF total >= threshold_size(len) THEN NoDelta
                 ELSE DeltaLoop(old_frame, new_frame, i3,
                                Append(deltas, [offset |-> start,
                                                data |-> Slice(new_frame, start, i3)]),
                                total)

create_delta_optimized(old_frame, new_frame) ==
    IF Len(old_frame) # Len(new_frame) THEN NoDelta
    ELSE DeltaLoop(old_frame, new_frame, 0, <<>>, 0)

RECURSIVE SerializeEntries(_)
SerializeEntries(deltas) ==
    IF deltas = <<>> THEN <<>>
    ELSE to_be_bytes(Head(deltas).offset) \o to_be_bytes(Len(Head(deltas).data))
           \o Head(deltas).data \o SerializeEntries(Tail(deltas))

serialize_deltas_optimized(deltas) == to_be_bytes(Len(deltas)) \o SerializeEntries(deltas)

DeltaErr == [ok |-> FALSE, deltas |-> <<>>]

\* deserialize_deltas lines 188-207: the for loop with count entries still to read
RECURSIVE DeserializeEntries(_, _, _, _)
DeserializeEntries(data, pos, count, deltas) ==
    IF count = 0 THEN [ok |-> TRUE, deltas |-> deltas]
    ELSE IF pos + 8 > Len(data) THEN DeltaErr
    ELSE LET offset == from_be_bytes(Slice(data, pos, pos + 4))
             len == from_be_bytes(Slice(data, pos + 4, pos + 8))
         IN  IF pos + 8 + len > Len(data) THEN DeltaErr
             ELSE DeserializeEntries(data, pos + 8 + len, count - 1,
                                     Append(deltas, [offset |-> offset,
                                                     data |-> Slice(data, pos + 8, pos + 8 + len)]))

deserialize_deltas(data) ==
    IF Len(data) < 4 THEN DeltaErr
    ELSE DeserializeEntries(data, 4, from_be_bytes(Slice(data, 0, 4)), <<>>)

EntryFits(delta, frame_size) == TRUE

\* apply_delta_safe lines 217-218: if end > base_frame.len() the apply fails
EntryInBounds(delta, frame_size) == delta.offset + Len(delta.data) <= frame_size

\* base_frame[start..end].copy_from_slice(&delta.data)
CopyFromSlice(base_frame, delta) ==
    [i \in DOMAIN base_frame |->
        IF delta.offset < i /\ i <= delta.offset + Len(delta.data)
        THEN delta.data[i - delta.offset]
        ELSE base_frame[i]]

RECURSIVE CopyAll(_, _)
CopyAll(base_frame, deltas) ==
    IF deltas = <<>> THEN base_frame
    ELSE CopyAll(CopyFromSlice(base_frame, Head(deltas)), Tail(deltas))

\* apply_delta_safe: every entry is validated before the first is copied
apply_delta_safe(base_frame, deltas) ==
    IF \A k \in DOMAIN deltas : EntryInBounds(deltas[k], Len(base_frame))
    THEN [ok |-> TRUE, frame |-> CopyAll(base_frame, deltas)]
    ELSE [ok |-> FALSE, frame |-> base_frame]

\* i32::to_le_bytes / u32::from_le_bytes for the values of a frame header
to_le_bytes(n) ==
    <<n % 256, (n \div 256) % 256, (n \div 65536) % 256, (n \div 16777216) % 256>>

from_le_bytes(b) == b[1] + b[2] * 256 + b[3] * 65536 + b[4] * 16777216

\* Frame::to_bytes lines 74-78: width, height and the length of the compressed
\* image in front of the compressed image
FrameBytes(width, height, compressed) ==
    to_le_bytes(width) \o to_le_bytes(height) \o to_le_bytes(Len(compressed)) \o compressed

\* data_to_send.chunks(CHUNK_SIZE)
RECURSIVE chunks(_, _)
chunks(data, size) ==
    IF data = <<>> THEN <<>>
    ELSE IF Len(data) <= size THEN <<data>>
    ELSE <<SubSeq(data, 1, size)>> \o chunks(SubSeq(data, size + 1, Len(data)), size)

Bit(b) == IF b THEN 1 ELSE 0

\* udp_send_loop lines 430-436: one datagram of a frame
Packet(video_sid, frame_type, sequence, i, is_last, chunk) ==
    video_sid \o <<frame_type>> \o to_be_bytes(sequence) \o to_be_bytes(i)
        \o <<Bit(is_last)>> \o chunk

\* udp_send_loop lines 426-439: the datagrams of one frame, in the order sent
Packets(video_sid, frame_type, sequence, data_to_send) ==
    LET cs == chunks(data_to_send, CHUNK_SIZE)
    IN  [i \in DOMAIN cs |->
            Packet(video_sid, frame_type, sequence, i - 1, i = Len(cs), cs[i])]

HeartbeatWithBody(video_sid, sequence) ==
    video_sid \o <<FrameTypeHeartbeat>> \o to_be_bytes(sequence) \o to_be_bytes(0) \o <<1, 0>>

\* udp_send_loop lines 415-423
HeartbeatPacket(video_sid, sequence) ==
    video_sid \o <<FrameTypeHeartbeat>> \o to_be_bytes(sequence) \o to_be_bytes(0) \o <<1>>

\* What one iteration of udp_send_loop does with a frame read from the camera
\* channel: [tx, out].  An unchanged frame short of the heartbeat interval skips the
\* rest of the iteration (continue).
SendIteration(t, video_sid, frame) ==
    LET sequence == (t.sequence + 1) % SEQUENCE_WRAP
        d == IF t.last_frame = None THEN NoDelta
             ELSE create_delta_optimized(t.last_frame, frame)
    IN  IF d.some /\ d.deltas = <<>>
        THEN IF t.heartbeat_counter + 1 >= HEARTBEAT_INTERVAL
             THEN [tx |-> [last_frame |-> frame, sequence |-> sequence, heartbeat_counter |-> 0],
                   out |-> <<HeartbeatPacket(video_sid, sequence)>>]
             ELSE [tx |-> [t EXCEPT !.sequence = sequence,
                                    !.heartbeat_counter = t.heartbeat_counter + 1],
                   out |-> <<>>]
        ELSE [tx |-> [last_frame |-> frame, sequence |-> sequence, heartbeat_counter |-> 0],
              out |-> IF d.some
                      THEN Packets(video_sid, FrameTypeDelta, sequence,
                                   serialize_deltas_optimized(d.deltas))
                      ELSE Packets(video_sid, FrameTypeFull, sequence, frame)]

\* ---- udp_listener_loop
\* The compressed images the external codec decodes (WebPDecodeRGB returns a
\* picture of the stored dimensions): those of the frames the peers encode.
Image(n) == [i \in 1..n |-> (i - 1) % 256]

ImageA == <<0, 1, 2, 3, 4, 5, 6, 7>>
ImageB == <<0, 1, 9, 9, 4, 5, 6, 7>>

\* The encoded frames of the peers: two short ones and one of LongFrameChunks chunks.
FrameA == FrameBytes(1, 1, ImageA)
FrameB == FrameBytes(1, 1, ImageB)
LongFrame == FrameBytes(2, 2, Image((LongFrameChunks - 1) * CHUNK_SIZE + 1 - FRAME_HEADER_LEN))

\* The frames of a peer whose picture changes little: a frame of DeltaFrameLen bytes
\* and the frames that differ from it in the first or the last byte of the
\* compressed image, changed up to MaxChanges times.
KeyFrame == FrameBytes(8, 8, Image(DeltaFrameLen - FRAME_HEADER_LEN))

Bump(frame, i) == [frame EXCEPT ![i] = (@ + 1) % 256]

RECURSIVE NearFrames(_)
NearFrames(n) ==
    IF n = 0 THEN {KeyFrame}
    ELSE NearFrames(n - 1)
           \cup { Bump(f, FRAME_HEADER_LEN + 1) : f \in NearFrames(n - 1) }
           \cup { Bump(f, DeltaFrameLen) : f \in NearFrames(n - 1) }

EncodedFrames == {FrameA, FrameB, LongFrame} \cup NearFrames(MaxChanges)

\* Frame::from_bytes lines 84-116 succeeds
from_bytes_ok(bytes) ==
    /\ Len(bytes) >= FRAME_HEADER_LEN
    /\ Len(bytes) >= FRAME_HEADER_LEN + from_le_bytes(Slice(bytes, 8, 12))
    /\ \E f \in EncodedFrames :
          f = Slice(bytes, 0, FRAME_HEADER_LEN + from_le_bytes(Slice(bytes, 8, 12)))

\* FrameCache::new
NewCache == [last_frame |-> None, reconstructed_frame |-> None, last_sequence |-> 0,
             corrupted |-> FALSE]

\* FrameCache::mark_corrupted
mark_corrupted(cache) == [cache EXCEPT !.corrupted = TRUE]

\* FrameCache::reset
reset(frame, sequence) ==
    [last_frame |-> frame, reconstructed_frame |-> frame, last_sequence |-> sequence,
     corrupted |-> FALSE]

\* for chunk in entry.chunks.values() { frame_data.extend(chunk) }: the chunks of
\* the BTreeMap in the order of their keys, from key lo on
RECURSIVE ConcatFrom(_, _)
ConcatFrom(chunk_map, lo) ==
    LET keys == { k \in DOMAIN chunk_map : k >= lo }
    IN  IF keys = {} THEN <<>>
        ELSE LET k == CHOOSE x \in keys : \A y \in keys : x <= y
             IN  chunk_map[k] \o ConcatFrom(chunk_map, k + 1)

\* udp_listener_loop lines 298-335: the dispatch of a reassembled frame by its
\* type; [cache, final] with final = None when there is nothing to publish
Dispatch(cache, frame_type, frame_data, sequence) ==
    IF frame_type = FrameTypeFull
    THEN [cache |-> reset(frame_data, sequence), final |-> frame_data]
    ELSE IF frame_type = FrameTypeDelta
    THEN IF cache.corrupted THEN [cache |-> cache, final |-> None]
         ELSE IF cache.reconstructed_frame = None
         THEN [cache |-> mark_corrupted(cache), final |-> None]
         ELSE LET d == deserialize_deltas(frame_data)
                  a == apply_delta_safe(cache.reconstructed_frame, d.deltas)
              IN  IF d.ok /\ a.ok
                  THEN [cache |-> [cache EXCEPT !.reconstructed_frame = a.frame,
                                                !.last_sequence = sequence],
                        final |-> a.frame]
                  ELSE [cache |-> mark_corrupted(cache), final |-> None]
    ELSE [cache |-> cache, final |-> None]

\* fragment_buffers.retain(...) lines 353-361: st = [buffers, caches, frames]
Retain50(st, t) ==
    LET expired == { sid \in DOMAIN st.buffers : t - st.buffers[sid].last_update >= CHUNK_TIMEOUT }
    IN  [st EXCEPT !.buffers = [sid \in DOMAIN st.buffers \ expired |-> st.buffers[sid]],
                   !.caches = [sid \in DOMAIN st.caches |->
                                  IF sid \in expired THEN mark_corrupted(st.caches[sid])
                                  ELSE st.caches[sid]]]

\* The fields of a datagram as the listener reads them.
PacketSid(buf) == Slice(buf, 0, SID_LEN)
PacketType(buf) == buf[SID_LEN + 1]
PacketSequence(buf) == from_be_bytes(Slice(buf, SID_LEN + 1, SID_LEN + 5))
PacketChunkId(buf) == from_be_bytes(Slice(buf, SID_LEN + 5, SID_LEN + 9))
PacketIsLast(buf) == buf[SID_LEN + 10] = 1
PacketChunkData(buf) == Slice(buf, SID_LEN + 10, Len(buf))

\* udp_listener_loop lines 252-361: one iteration of the loop for the datagram buf
\* received at time t, with the frame map's lock taken by another task or free;
\* st = [buffers, caches, frames]
ListenIteration(st, buf, t, locked) ==
    IF Len(buf) <= SID_LEN + 10 THEN Retain50(st, t)
    ELSE IF PacketType(buf) \notin {FrameTypeFull, FrameTypeDelta} THEN st
    ELSE LET sid == PacketSid(buf)
             sequence == PacketSequence(buf)
             chunk_id == PacketChunkId(buf)
             entry0 == IF sid \in DOMAIN st.buffers THEN st.buffers[sid]
                       ELSE [chunks |-> EmptyMap, last_update |-> t,
                             frame_type |-> PacketType(buf), expected_chunks |-> 0,
                             sequence |-> sequence]
             entry1 == IF entry0.sequence # sequence
                       THEN [entry0 EXCEPT !.chunks = EmptyMap,
                                           !.frame_type = PacketType(buf),
                                           !.sequence = sequence]
                       ELSE entry0
             entry2 == [entry1 EXCEPT !.chunks = MapPut(@, chunk_id, PacketChunkData(buf)),
                                      !.last_update = t]
             entry == IF PacketIsLast(buf)
                      THEN [entry2 EXCEPT !.expected_chunks = chunk_id + 1]
                      ELSE entry2
         IN  IF PacketIsLast(buf) /\ Cardinality(DOMAIN entry.chunks) = entry.expected_chunks
             THEN LET frame_data == ConcatFrom(entry.chunks, 0)
                      cache == IF sid \in DOMAIN st.caches THEN st.caches[sid] ELSE NewCache
                      r == Dispatch(cache, entry.frame_type, frame_data, sequence)
                  IN  Retain50([buffers |-> MapRemove(st.buffers, sid),
                                caches |-> MapPut(st.caches, sid, r.cache),
                                frames |-> IF r.final # None /\ from_bytes_ok(r.final) /\ ~locked
                                           THEN MapPut(st.frames, sid, r.final)
                                           ELSE st.frames],
                               t)
             ELSE Retain50([st EXCEPT !.buffers = MapPut(st.buffers, sid, entry)], t)

\* ---- the client's inputs
\* The prefix a sender puts in front of its datagrams (RoomID || StreamID) for two
\* peers of one room; the relay forwards the datagram without the RoomID.
PrefixA == <<0, 0, 0, 1, 7, 0, 0, 1>>
PrefixB == <<0, 0, 0, 1, 7, 0, 0, 3>>

\* Frames the camera produces next, given the frame sent last: at first a frame of
\* DeltaFrameLen bytes or a short one; then the same frame again, the frame with up
\* to MaxDiffs bytes changed, or a frame of another length.
RECURSIVE PositionSets(_, _)
PositionSets(len, k) ==
    IF k = 0 THEN {{}}
    ELSE { S \cup {i} : S \in PositionSets(len, k - 1), i \in 1..len }

Changed(frame, S) == [i \in DOMAIN frame |-> IF i \in S THEN (frame[i] + 1) % 256 ELSE frame[i]]

CameraFrames(last_frame) ==
    IF last_frame = None THEN {Image(DeltaFrameLen), ImageA}
    ELSE IF last_frame = ImageA THEN {ImageA, ImageB, Image(DeltaFrameLen)}
    ELSE IF Len(last_frame) = DeltaFrameLen
    THEN { Changed(last_frame, S) : S \in PositionSets(DeltaFrameLen, MaxDiffs) } \cup {ImageA}
    ELSE {last_frame}

\* The datagrams that may arrive at the listener, as the relay forwards them: the
\* chunks of a long Full frame and a short Full frame of peer A; a Delta that turns
\* FrameA into FrameB; a Delta whose second entry ends beyond the frame; a Delta
\* cut short; a Heartbeat of peer A; of peer B a Full frame and a datagram of
\* unknown type.
DeltaAB == serialize_deltas_optimized(<<[offset |-> 14, data |-> <<9, 9>>]>>)
DeltaBeyond == serialize_deltas_optimized(<<[offset |-> 12, data |-> <<5>>],
                                            [offset |-> 19, data |-> <<1, 1>>]>>)
DeltaCut == <<0, 0, 0, 1, 0, 0>>
UnknownFrameType == 3

ListenerInputs ==
    LET pkts == Packets(PrefixA, FrameTypeFull, 1, LongFrame)
                  \o Packets(PrefixA, FrameTypeFull, 2, FrameA)
                  \o Packets(PrefixA, FrameTypeDelta, 3, DeltaAB)
                  \o Packets(PrefixA, FrameTypeDelta, 4, DeltaBeyond)
                  \o Packets(PrefixA, FrameTypeDelta, 5, DeltaCut)
                  \o <<HeartbeatPacket(PrefixA, 6)>>
                  \o Packets(PrefixB, FrameTypeFull, 1, FrameA)
                  \o Packets(PrefixB, UnknownFrameType, 2, <<0>>)
    IN  [k \in DOMAIN pkts |-> ForwardPayload(pkts[k])]

\* ---- the client's actions
\* udp_send_loop: camera_frame_channel_rx.changed() and the iteration it starts, for
\* a camera that produces one of frames
CameraSends(frames) ==
    /\ frames_left > 0
    /\ frames_left' = frames_left - 1
    /\ \E frame \in frames :
         LET r == SendIteration(tx, PrefixA, frame)
         IN  /\ tx' = r.tx
             /\ tx_out' = r.out
             /\ tx_prev' = tx.last_frame
             /\ still_run' = IF frame = tx.last_frame THEN still_run + 1 ELSE 0
             /\ aired' = IF aired = NotRecorded THEN NotRecorded
                         ELSE Append(aired, [sequence |-> r.tx.sequence, frame |-> frame,
                                             out |-> r.out])
    /\ UNCHANGED <<listen_vars, stream_vars, server_vars, fine_vars>>

SendFrame == CameraSends(CameraFrames(tx.last_frame))

\* A camera in front of a scene that seldom changes: the frame sent last again, or
\* one of three frames.
StillFrames(last_frame) ==
    (IF last_frame = None THEN {} ELSE {last_frame})
        \cup {Image(DeltaFrameLen), Changed(Image(DeltaFrameLen), {1}), FrameA}

SendStill == CameraSends(StillFrames(tx.last_frame))

\* udp_listener_loop: udp_stream.recv returns one of the datagrams inputs and the
\* iteration runs
Receives(inputs) ==
    /\ rx_left > 0
    /\ rx_left' = rx_left - 1
    /\ \E buf \in inputs, locked \in BOOLEAN :
         LET r == ListenIteration([buffers |-> fragment_buffers, caches |-> frame_caches,
                                   frames |-> sid_to_frame_map], buf, now, locked)
             buffered == /\ Len(buf) > SID_LEN + 10
                         /\ PacketType(buf) \in {FrameTypeFull, FrameTypeDelta}
             sid == PacketSid(buf)
             before == IF /\ sid \in DOMAIN fragment_buffers
                          /\ fragment_buffers[sid].sequence = PacketSequence(buf)
                       THEN received[sid] ELSE 0
         IN  /\ fragment_buffers' = r.buffers
             /\ frame_caches' = r.caches
             /\ sid_to_frame_map' = r.frames
             /\ received' = [s \in DOMAIN r.buffers |->
                               IF buffered /\ s = sid THEN before + 1 ELSE received[s]]
    /\ UNCHANGED <<now, send_vars, stream_vars, server_vars, fine_vars>>

Receive == Receives(Range(ListenerInputs))

\* Time passes between two datagrams.
Tick ==
    /\ now < MaxClock
    /\ now' = now + TickMs
    /\ UNCHANGED <<fragment_buffers, frame_caches, sid_to_frame_map, received, rx_left,
                   send_vars, stream_vars, server_vars, fine_vars>>

\* No command is to be written.
NoCommand == [id |-> "none", kind |-> "Simple", payload |-> <<>>]

\* No stream is followed.
NoRead == [stage |-> "tag", id |-> "none", need |-> 0, buf |-> <<>>, left |-> 0,
           list |-> <<>>, taken |-> <<>>]

StreamIdle ==
    /\ stream = <<>>
    /\ arriving = <<>>
    /\ outbox = NoCommand
    /\ wrote = "none"
    /\ rd = NoRead
    /\ inbox = <<>>
    /\ ready_left = 0
    /\ written = <<>>

\* The client's datagram tasks as they start: nothing sent, nothing received.
DatagramTasks ==
    /\ tx = [last_frame |-> None, sequence |-> 0, heartbeat_counter |-> 0]
    /\ tx_out = <<>>
    /\ tx_prev = None
    /\ still_run = 0
    /\ fragment_buffers = EmptyMap
    /\ frame_caches = EmptyMap
    /\ sid_to_frame_map = EmptyMap
    /\ now = 0
    /\ received = EmptyMap

ClientConstructed == DatagramTasks /\ StreamIdle /\ aired = NotRecorded

\* No client runs.
NoClient == ClientConstructed /\ frames_left = 0 /\ rx_left = 0

\* ------------------------------------------------------------ control codec
\* src/shared/src/tcp_command.rs, src/shared/src/tcp_command_id.rs
COMMAND_BYTE_OFFSET == 69
U8_MAX == 255

\* enum TcpCommandId, in the order of its variants (discriminants 0..15)
TcpCommandIds ==
    <<"HelloFromClient", "HelloFromServer", "ErrorResponse", "GetUserList", "UserList",
      "GetRoomList", "RoomList", "CreateRoom", "CreateRoomSuccess", "DeleteRoom",
      "DeleteRoomSuccess", "JoinRoom", "JoinRoomSuccess", "LeaveRoom",
      "OtherUserJoinedRoom", "OtherUserLeftRoom">>

Discriminant(id) == (CHOOSE i \in DOMAIN TcpCommandIds : TcpCommandIds[i] = id) - 1

\* The discriminant without the offset.
NoOffset(id) == Discriminant(id)

\* TcpCommandId::to_byte: *self as u8 + COMMAND_BYTE_OFFSET
to_byte(id) == (Discriminant(id) + COMMAND_BYTE_OFFSET) % 256

\* TcpCommandId::from_byte: byte.wrapping_sub(COMMAND_BYTE_OFFSET) matched against
\* the discriminants; "Invalid" is the Err
from_byte(byte) ==
    LET x == (byte - COMMAND_BYTE_OFFSET) % 256
    IN  IF x < Len(TcpCommandIds) THEN TcpCommandIds[x + 1] ELSE "Invalid"

\* TcpCommandId::get_payload_type
get_payload_type(id) ==
    IF id \in {"HelloFromServer", "GetUserList", "GetRoomList", "CreateRoomSuccess",
               "DeleteRoomSuccess", "LeaveRoom"} THEN "Simple"
    ELSE IF id \in {"CreateRoom", "HelloFromClient", "ErrorResponse", "DeleteRoom",
                    "JoinRoom"} THEN "String"
    ELSE IF id \in {"UserList", "RoomList"} THEN "StringList"
    ELSE "Bytes"

\* std::str::from_utf8(..).is_ok(), for the bytes drawn here: ASCII, and 255, which
\* no UTF-8 text contains
from_utf8_ok(bytes) == \A i \in DOMAIN bytes : bytes[i] < 128

\* An encoding of the list that refuses no string.
AnyLengths(list) == [ok |-> TRUE, bytes |-> <<>>]

\* The bytes of the strings of a StringList, each behind its length; not ok when a
\* string is too long (the list is halved to keep the evaluation shallow)
RECURSIVE ListBytes(_)
ListBytes(list) ==
    IF list = <<>> THEN [ok |-> TRUE, bytes |-> <<>>]
    ELSE IF Len(list) = 1
    THEN [ok |-> Len(list[1]) <= U8_MAX,
          bytes |-> IF Len(list[1]) <= U8_MAX THEN <<Len(list[1]) % 256>> \o list[1] ELSE <<>>]
    ELSE LET half == Len(list) \div 2
             front == ListBytes(SubSeq(list, 1, half))
             back == ListBytes(SubSeq(list, half + 1, Len(list)))
         IN  [ok |-> front.ok /\ back.ok,
              bytes |-> IF front.ok /\ back.ok THEN front.bytes \o back.bytes ELSE <<>>]

\* TcpCommand::write_to_stream: the bytes of the one write_all; not ok, with no
\* byte, when the command is refused before the write
Encoded(cmd) ==
    IF cmd.kind = "Simple" THEN [ok |-> TRUE, bytes |-> <<to_byte(cmd.id)>>]
    ELSE IF Len(cmd.payload) > U8_MAX THEN [ok |-> FALSE, bytes |-> <<>>]
    ELSE IF cmd.kind \in {"String", "Bytes"}
    THEN [ok |-> TRUE, bytes |-> <<to_byte(cmd.id), Len(cmd.payload) % 256>> \o cmd.payload]
    ELSE LET body == ListBytes(cmd.payload)
         IN  [ok |-> body.ok,
              bytes |-> IF body.ok
                        THEN <<to_byte(cmd.id), Len(cmd.payload) % 256>> \o body.bytes
                        ELSE <<>>]

\* read_from_stream lines 127-135, n times from position s of bytes: the positions
\* at which the iterations start.  An iteration whose string has not wholly
\* arrived, or is no UTF-8, does not move on.  (The iterations are halved to keep
\* the evaluation shallow.)
RECURSIVE StringStarts(_, _, _)
StringStarts(bytes, s, n) ==
    IF n = 0 THEN <<s>>
    ELSE IF n = 1
    THEN <<s, IF /\ s <= Len(bytes)
                 /\ s + bytes[s] <= Len(bytes)
                 /\ from_utf8_ok(SubSeq(bytes, s + 1, s + bytes[s]))
              THEN s + bytes[s] + 1 ELSE s>>
    ELSE LET half == n \div 2
             front == StringStarts(bytes, s, half)
             back == StringStarts(bytes, front[half + 1], n - half)
         IN  front \o Tail(back)

\* read_from_stream lines 126-136, the loop over the strings of a StringList, from
\* the locals r of a future polled on bytes; the outcome is as for Poll
ReadStrings(r, bytes, closed) ==
    LET Stop(r2, rest, res) == [rd |-> r2, stream |-> rest, outcome |-> res, cmd |-> None]
        Done(r2, rest) ==
            [rd |-> r2, stream |-> rest, outcome |-> "ok",
             cmd |-> [id |-> r.id, kind |-> "StringList", payload |-> r2.list]]
        Waiting == IF closed THEN "err" ELSE "pending"
        Strings(r1, bs) ==
            LET starts == StringStarts(bs, 1, r1.left)
                m == Cardinality({ k \in 1..r1.left : starts[k + 1] > starts[k] })
                q == starts[m + 1]
                r2 == [r1 EXCEPT !.list = @ \o [k \in 1..m |->
                                                  SubSeq(bs, starts[k] + 1, starts[k + 1] - 1)],
                                 !.left = @ - m,
                                 !.taken = @ \o SubSeq(bs, 1, q - 1)]
            IN  IF m = r1.left THEN Done(r2, SubSeq(bs, q, Len(bs)))
                ELSE IF q > Len(bs) THEN Stop(r2, <<>>, Waiting)
                ELSE IF q + bs[q] <= Len(bs)
                THEN Stop([r2 EXCEPT !.taken = @ \o SubSeq(bs, q, q + bs[q])],
                          SubSeq(bs, q + bs[q] + 1, Len(bs)), "err")
                ELSE Stop([r2 EXCEPT !.stage = "str", !.need = bs[q],
                                     !.buf = SubSeq(bs, q + 1, Len(bs)),
                                     !.taken = @ \o SubSeq(bs, q, Len(bs))],
                          <<>>, Waiting)
        got == r.need - Len(r.buf)
        str == r.buf \o SubSeq(bytes, 1, got)
        after == [r EXCEPT !.stage = "strlen", !.buf = <<>>,
                           !.taken = @ \o SubSeq(bytes, 1, got),
                           !.list = Append(@, str), !.left = @ - 1]
    IN  IF r.stage = "strlen" THEN Strings(r, bytes)
        ELSE IF Len(r.buf) + Len(bytes) < r.need
        THEN Stop([r EXCEPT !.buf = @ \o bytes, !.taken = @ \o bytes], <<>>, Waiting)
        ELSE IF ~from_utf8_ok(str) THEN Stop(after, SubSeq(bytes, got + 1, Len(bytes)), "err")
        ELSE IF r.left = 1 THEN Done(after, SubSeq(bytes, got + 1, Len(bytes)))
        ELSE Strings(after, SubSeq(bytes, got + 1, Len(bytes)))

\* One poll of a read_from_stream future with locals r on the bytes that have
\* arrived; closed tells whether the peer has shut the stream.  r.taken are the bytes
\* the future has taken off the stream.  The outcome is "pending", "eof", "err" or
\* "ok" with the command.
RECURSIVE Poll(_, _, _)
Poll(r, bytes, closed) ==
    LET Done(r2, rest, cmd) == [rd |-> r2, stream |-> rest, outcome |-> "ok", cmd |-> cmd]
        got == Min(r.need - Len(r.buf), Len(bytes))
        rest == SubSeq(bytes, got + 1, Len(bytes))
        full == [r EXCEPT !.buf = @ \o SubSeq(bytes, 1, got),
                          !.taken = @ \o SubSeq(bytes, 1, got)]
    IN  IF r.stage \in {"strlen", "str"} THEN ReadStrings(r, bytes, closed)
        ELSE IF r.stage = "tag"
        THEN IF bytes = <<>>
             THEN [rd |-> r, stream |-> bytes,
                   outcome |-> IF closed THEN "eof" ELSE "pending", cmd |-> None]
             ELSE LET id == from_byte(Head(bytes))
                      r2 == [r EXCEPT !.id = id, !.taken = <<Head(bytes)>>]
                  IN  IF id = "Invalid"
                      THEN [rd |-> r2, stream |-> Tail(bytes), outcome |-> "err", cmd |-> None]
                      ELSE IF get_payload_type(id) = "Simple"
                      THEN Done(r2, Tail(bytes), [id |-> id, kind |-> "Simple", payload |-> <<>>])
                      ELSE Poll([r2 EXCEPT !.stage = IF get_payload_type(id) = "StringList"
                                                     THEN "count" ELSE "len",
                                           !.need = 1],
                                Tail(bytes), closed)
        ELSE IF Len(r.buf) + got < r.need
        THEN [rd |-> full, stream |-> rest,
              outcome |-> IF closed THEN "err" ELSE "pending", cmd |-> None]
        ELSE IF r.stage = "len"
        THEN Poll([full EXCEPT !.stage = "payload", !.need = full.buf[1], !.buf = <<>>],
                  rest, closed)
        ELSE IF r.stage = "payload"
        THEN IF get_payload_type(r.id) = "Bytes"
             THEN Done(full, rest, [id |-> r.id, kind |-> "Bytes", payload |-> full.buf])
             ELSE IF from_utf8_ok(full.buf)
             THEN Done(full, rest, [id |-> r.id, kind |-> "String", payload |-> full.buf])
             ELSE [rd |-> full, stream |-> rest, outcome |-> "err", cmd |-> None]
        ELSE IF full.buf[1] = 0
        THEN Done(full, rest, [id |-> r.id, kind |-> "StringList", payload |-> <<>>])
        ELSE ReadStrings([full EXCEPT !.stage = "strlen", !.left = full.buf[1], !.need = 1,
                                      !.buf = <<>>],
                         rest, closed)

\* ------------------------------------------------------------------- locks
\* The connection tasks, the relay's packet loop and its batch flush task.
PacketTask == NumConns + 1
FlushTask == NumConns + 2
LockTasks == 1..(NumConns + 2)

\* users and rooms are RwLocks, the others Mutexes; video and audio are the two
\* stream tables of a room, tx the map of outbound channels, stats the relay's
\* counters and clients its per-source statistics.
Locks == {"users", "rooms", "video", "audio", "tx", "batch", "stats", "clients"}

Lock(l) == <<"acq", l, "x">>
ReadLock(l) == <<"acq", l, "r">>
WriteLock(l) == <<"acq", l, "w">>
Drop(l) == <<"rel", l, "x">>

\* handle_handshake line 117 and handle_stream lines 35-43
HandshakeLocks ==
    { <<ReadLock("users"), Drop("users")>>,
      <<ReadLock("users"), Drop("users"), WriteLock("users"), Drop("users"),
        Lock("tx"), Drop("tx")>> }

\* handle_get_user_list line 84, handle_get_room_list line 99, handle_create_room
\* line 141 and handle_delete_room line 181
ListLocks ==
    { <<ReadLock("users"), Drop("users")>>,
      <<ReadLock("rooms"), Drop("rooms")>>,
      <<WriteLock("rooms"), Drop("rooms")>> }

\* handle_join_room lines 240-296: the room is found or not; one lock of the
\* channel map for every other member
JoinRoomLocks ==
    LET found == <<WriteLock("rooms"), Lock("video"), Drop("video"),
                   Lock("audio"), Drop("audio"), Drop("rooms")>>
    IN  { <<WriteLock("rooms"), Drop("rooms")>>,
          found,
          found \o <<Lock("tx"), Drop("tx")>> }

\* handle_leave_room lines 332-376: the session's first StreamID is found in the
\* room's video table, or both lookups fail
LeaveRoomLocks ==
    { <<WriteLock("rooms"), Lock("video"), Drop("video"), Drop("rooms"),
        Lock("tx"), Drop("tx")>>,
      <<WriteLock("rooms"), Lock("video"), Drop("video"), Lock("video"), Drop("video"),
        Drop("rooms")>> }

\* A teardown that takes the channel map before the registry and keeps it.
TeardownTxFirst ==
    { <<WriteLock("users"), Drop("users"),
        Lock("tx"), WriteLock("rooms"), Lock("video"), Drop("video"), Drop("rooms"),
        Drop("tx")>> }

\* WeSFU::listen lines 81-109: without a session, and with one in a room that has
\* another member
TeardownLocks ==
    LET first == <<WriteLock("users"), Drop("users"), Lock("tx"), Drop("tx")>>
    IN  { first,
          first \o <<WriteLock("rooms"), Lock("video"), Lock("tx"), Drop("tx"),
                     Drop("video"), Drop("rooms")>> }

\* handle_packet lines 170-301 with check_rate_limit, send_immediate and
\* flush_batch: a datagram that is too short, over the rate, for no room, sent at
\* once, dropped under back-pressure, and one whose address is learned and that is
\* batched and flushed
PacketLocks ==
    LET counted == <<Lock("stats"), Drop("stats")>>
        rated == counted \o <<Lock("clients"), Drop("clients")>>
        video == <<ReadLock("rooms"), Lock("video"), Drop("video"), Drop("rooms")>>
        audio == <<ReadLock("rooms"), Lock("video"), Drop("video"),
                   Lock("audio"), Drop("audio"), Drop("rooms")>>
        learn == <<WriteLock("rooms"), Lock("audio"), Drop("audio"), Drop("rooms"),
                   WriteLock("rooms"), Lock("video"), Drop("video"), Drop("rooms")>>
        room == <<Lock("batch"), Drop("batch")>>
    IN  { counted,
          rated \o counted,
          rated \o <<ReadLock("rooms"), Drop("rooms")>>,
          rated \o video \o room \o counted,
          rated \o video \o <<Lock("batch"), Lock("stats"), Drop("stats"), Drop("batch")>>,
          rated \o audio \o learn \o room \o <<Lock("batch"), Drop("batch")>>
                \o <<Lock("batch"), Drop("batch")>> \o counted }

\* spawn_batch_flush_task lines 432-477: nothing to flush, or a flush
FlushLocks ==
    { <<Lock("batch"), Drop("batch")>>,
      <<Lock("batch"), Drop("batch"), Lock("stats"), Drop("stats")>> }

\* The operations a task may start.
LockPrograms(t) ==
    IF t = PacketTask THEN PacketLocks
    ELSE IF t = FlushTask THEN FlushLocks
    ELSE HandshakeLocks \cup ListLocks \cup JoinRoomLocks \cup LeaveRoomLocks \cup TeardownLocks

LocksFree ==
    /\ prog = [t \in LockTasks |-> <<>>]
    /\ holds = [t \in LockTasks |-> <<>>]
    /\ waitq = [l \in Locks |-> <<>>]

FlushIdle ==
    /\ loop_flush = [pc |-> "recv", sends |-> <<>>]
    /\ task_flush = <<>>
    /\ wire = <<>>
    /\ appended = <<>>

FineIdle == LocksFree /\ ops_left = 0 /\ FlushIdle

Waiting(t) == \E l \in Locks : t \in Range(waitq[l])

\* The lock is free for the request at the head of its queue: a Mutex and a write
\* lock need it unheld, a read lock needs it held by readers only.
Grantable(t) ==
    /\ prog[t] # <<>>
    /\ LET l == Head(prog[t])[2]
           mode == Head(prog[t])[3]
       IN  /\ waitq[l] # <<>>
           /\ Head(waitq[l]) = t
           /\ \A t2 \in LockTasks : \A i \in DOMAIN holds[t2] :
                 holds[t2][i][1] = l => (mode = "r" /\ holds[t2][i][2] = "r")

\* A task starts an operation.
StartOp(t) ==
    /\ prog[t] = <<>>
    /\ ops_left > 0
    /\ ops_left' = ops_left - 1
    /\ \E p \in LockPrograms(t) : prog' = [prog EXCEPT ![t] = p]
    /\ UNCHANGED <<holds, waitq, flush_vars, server_vars, client_vars>>

\* lock().await, read().await, write().await: the task joins the lock's queue
Request(t) ==
    /\ prog[t] # <<>>
    /\ Head(prog[t])[1] = "acq"
    /\ ~Waiting(t)
    /\ waitq' = [waitq EXCEPT ![Head(prog[t])[2]] = Append(@, t)]
    /\ UNCHANGED <<prog, holds, ops_left, flush_vars, server_vars, client_vars>>

\* the await returns the guard
Grant(t) ==
    /\ Grantable(t)
    /\ waitq' = [waitq EXCEPT ![Head(prog[t])[2]] = Tail(@)]
    /\ holds' = [holds EXCEPT ![t] = Append(@, <<Head(prog[t])[2], Head(prog[t])[3]>>)]
    /\ prog' = [prog EXCEPT ![t] = Tail(@)]
    /\ UNCHANGED <<ops_left, flush_vars, server_vars, client_vars>>

\* the guard is dropped
Release(t) ==
    /\ prog[t] # <<>>
    /\ Head(prog[t])[1] = "rel"
    /\ holds' = [holds EXCEPT ![t] = SelectSeq(@, LAMBDA h : h[1] # Head(prog[t])[2])]
    /\ prog' = [prog EXCEPT ![t] = Tail(@)]
    /\ UNCHANGED <<waitq, ops_left, flush_vars, server_vars, client_vars>>

\* ----------------------------------------------------------- specifications
CtlNext ==
    \E c \in Conns :
        \/ Handshake(c)
        \/ HandshakeAbort(c)
        \/ Register(c)
        \/ InsertTx(c)
        \/ CmdCreateRoom(c)
        \/ CmdDeleteRoom(c)
        \/ CmdJoinRoom(c)
        \/ JoinRespond(c)
        \/ CmdLeaveRoom(c)
        \/ LeaveBroadcast(c)
        \/ ForwardOutbound(c)
        \/ Disconnect(c)
        \/ TeardownUsers(c)
        \/ TeardownTx(c)
        \/ TeardownRooms(c)

Next == CtlNext \/ UdpNext

\* The control plane with the datagram relay.
Init ==
    /\ FineIdle
    /\ Constructed
    /\ cmds_left = MaxCmds
    /\ coll_left = MaxCollisions
    /\ bad_left = MaxBadNames
    /\ InitUdp
    /\ pkts_left = MaxPackets
    /\ exp_left = MaxExpiries
    /\ last_cmd = NotRecorded
    /\ NoClient

Spec == Init /\ [][Next]_vars

\* No command has been read yet.
NoCmd == [conn |-> 0, id |-> "none", name |-> <<>>]

\* The control plane alone, with a random source that never repeats a value; the
\* command read last is recorded.
InitCtl ==
    /\ FineIdle
    /\ Constructed
    /\ cmds_left = MaxCmdsCtl
    /\ coll_left = 0
    /\ bad_left = MaxBadNames
    /\ InitUdp
    /\ pkts_left = 0
    /\ exp_left = 0
    /\ last_cmd = NoCmd
    /\ NoClient

CtlSpec == InitCtl /\ [][CtlNext]_vars

\* The state after user a has created room l and joined it, user b has joined it
\* too, and every notification of the two joins has been written.
RidL == <<0, 0, 0, 1>>
SidAV == <<7, 0, 0, 1>>
SidAA == <<7, 0, 0, 2>>
SidBV == <<7, 0, 0, 3>>
SidBA == <<7, 0, 0, 4>>

TwoMembersJoined ==
    /\ users = UserNames
    /\ rooms = [rid \in {RidL} |->
                   JoinedRoom(JoinedRoom(NewRoom(RoomNames[1]), UserNames[1], SidAV, SidAA),
                              UserNames[2], SidBV, SidBA)]
    /\ txmap = [u \in Range(UserNames) |-> CHOOSE c \in {1, 2} : UserNames[c] = u]
    /\ chan = [c \in Conns |-> <<>>]
    /\ lagged = [c \in Conns |-> FALSE]
    /\ pc = [c \in Conns |-> IF c <= 2 THEN "loop" ELSE "accepted"]
    /\ uname = [c \in Conns |-> IF c <= 2 THEN UserNames[c] ELSE None]
    /\ csid = [c \in Conns |->
                  IF c = 1 THEN <<SidAV, SidAA>> ELSE IF c = 2 THEN <<SidBV, SidBA>> ELSE None]
    /\ pend = [c \in Conns |-> NoPend]
    /\ sent = [c \in Conns |->
                  IF c = 1
                  THEN <<BytesCmd("JoinRoomSuccess", JoinRoomSuccessPayload(RidL, SidAV, SidAA)),
                         OtherUserJoinedRoom(SidBV), OtherUserJoinedRoom(SidBA)>>
                  ELSE IF c = 2
                  THEN <<BytesCmd("JoinRoomSuccess", JoinRoomSuccessPayload(RidL, SidBV, SidBA)),
                         OtherUserJoinedRoom(SidAV), OtherUserJoinedRoom(SidAA)>>
                  ELSE <<>>]
    /\ issued = << <<1, SidAV>>, <<1, SidAA>>, <<2, SidBV>>, <<2, SidBA>> >>
    /\ heard = [c \in Conns |->
                   IF c = 1 THEN <<SidBV, SidBA>> ELSE IF c = 2 THEN <<SidAV, SidAA>> ELSE <<>>]
    /\ left = [c \in Conns |-> None]
    /\ seen_rids = {RidL}

\* The control plane with the datagram relay, from a room with two members.
InitRelay ==
    /\ FineIdle
    /\ TwoMembersJoined
    /\ cmds_left = MaxCmdsRelay
    /\ coll_left = 0
    /\ bad_left = 0
    /\ InitUdp
    /\ pkts_left = MaxPacketsRelay
    /\ exp_left = 0
    /\ last_cmd = NotRecorded
    /\ NoClient

\* No further connection is accepted and no room is created or deleted.
RelayNext ==
    \/ \E c \in Conns :
          \/ CmdJoinRoom(c)
          \/ JoinRespond(c)
          \/ CmdLeaveRoom(c)
          \/ LeaveBroadcast(c)
          \/ ForwardOutbound(c)
          \/ Disconnect(c)
          \/ TeardownUsers(c)
          \/ TeardownTx(c)
          \/ TeardownRooms(c)
    \/ UdpNext

RelaySpec == InitRelay /\ [][RelayNext]_vars

\* The sessions user b holds one after the other: the first is <<SidBV, SidBA>>.
SidV(j) == <<7, 0, 0, 2 * j + 3>>
SidA(j) == <<7, 0, 0, 2 * j + 4>>

\* Room l after user b has left it and joined it again k times.
RECURSIVE Rejoined(_)
Rejoined(k) ==
    IF k = 0
    THEN JoinedRoom(JoinedRoom(NewRoom(RoomNames[1]), UserNames[1], SidAV, SidAA),
                    UserNames[2], SidBV, SidBA)
    ELSE JoinedRoom(LeaveScan(<<RidL>>,
                              [rooms |-> [rid \in {RidL} |-> Rejoined(k - 1)],
                               found |-> FALSE, leaving |-> FALSE, affected |-> <<>>],
                              SidV(k - 1), SidA(k - 1), UserNames[2]).rooms[RidL],
                    UserNames[2], SidV(k), SidA(k))

\* What these k rounds send to user a's channel, in order.
RECURSIVE RejoinNotes(_)
RejoinNotes(k) ==
    IF k = 0 THEN <<>>
    ELSE RejoinNotes(k - 1) \o <<OtherUserLeftRoom(SidV(k - 1)),
                                 OtherUserJoinedRoom(SidV(k)), OtherUserJoinedRoom(SidA(k))>>

\* The StreamIDs issued so far, in order.
RECURSIVE RejoinIssued(_)
RejoinIssued(k) ==
    IF k = 0 THEN << <<1, SidAV>>, <<1, SidAA>>, <<2, SidBV>>, <<2, SidBA>> >>
    ELSE RejoinIssued(k - 1) \o << <<2, SidV(k)>>, <<2, SidA(k)>> >>

\* The state in which user a created and joined room l, user b joined it, and
\* user b then left and joined again MaxRejoins times while user a's handler
\* forwarded the first notification of b's first join and nothing since.
InitLag ==
    /\ FineIdle
    /\ users = UserNames
    /\ rooms = [rid \in {RidL} |-> Rejoined(MaxRejoins)]
    /\ txmap = [u \in Range(UserNames) |-> CHOOSE c \in {1, 2} : UserNames[c] = u]
    /\ pc = [c \in Conns |-> IF c <= 2 THEN "loop" ELSE "accepted"]
    /\ LET st == SendFrames([chan |-> [c \in Conns |-> <<>>],
                             lagged |-> [c \in Conns |-> FALSE]],
                            UserNames[1],
                            <<OtherUserJoinedRoom(SidBA)>> \o RejoinNotes(MaxRejoins))
       IN  /\ chan = st.chan
           /\ lagged = st.lagged
    /\ uname = [c \in Conns |-> IF c <= 2 THEN UserNames[c] ELSE None]
    /\ csid = [c \in Conns |->
                  IF c = 1 THEN <<SidAV, SidAA>>
                  ELSE IF c = 2 THEN <<SidV(MaxRejoins), SidA(MaxRejoins)>> ELSE None]
    /\ pend = [c \in Conns |-> NoPend]
    /\ LET old_sids == <<SidAV, SidAA>> \o [j \in 1..MaxRejoins |-> SidA(j - 1)]
       IN  /\ sent = [c \in Conns |->
                         IF c = 1
                         THEN <<BytesCmd("JoinRoomSuccess",
                                         JoinRoomSuccessPayload(RidL, SidAV, SidAA)),
                                OtherUserJoinedRoom(SidBV)>>
                         ELSE IF c = 2
                         THEN <<BytesCmd("JoinRoomSuccess",
                                         JoinRoomSuccessPayload(RidL, SidV(MaxRejoins),
                                                                SidA(MaxRejoins)))>>
                              \o [i \in DOMAIN old_sids |-> OtherUserJoinedRoom(old_sids[i])]
                         ELSE <<>>]
           /\ heard = [c \in Conns |->
                          IF c = 1 THEN <<SidBV>> ELSE IF c = 2 THEN old_sids ELSE <<>>]
    /\ issued = RejoinIssued(MaxRejoins)
    /\ left = [c \in Conns |->
                  IF c = 2 /\ MaxRejoins > 0
                  THEN <<SidV(MaxRejoins - 1), SidA(MaxRejoins - 1)>> ELSE None]
    /\ seen_rids = {RidL}
    /\ cmds_left = MaxCmdsLag
    /\ coll_left = 0
    /\ bad_left = 0
    /\ InitUdp
    /\ pkts_left = 0
    /\ exp_left = 0
    /\ last_cmd = NotRecorded
    /\ NoClient

\* No client closes its connection, and the only command sent is LeaveRoom.
LagNext ==
    \E c \in Conns :
        \/ CmdLeaveRoom(c)
        \/ LeaveBroadcast(c)
        \/ ForwardOutbound(c)
        \/ TeardownUsers(c)
        \/ TeardownTx(c)
        \/ TeardownRooms(c)

LagSpec == InitLag /\ [][LagNext]_vars

\* The relay alone, from a room with two members, when the first source address
\* has sent all but RateHeadroom of the datagrams of its window (to a room the
\* server does not know, so that no address has been learned).
InitRate ==
    /\ FineIdle
    /\ TwoMembersJoined
    /\ cmds_left = 0
    /\ coll_left = 0
    /\ bad_left = MaxBadNames
    /\ udp = IdleUdp
    /\ client_stats = [a \in {<<"addr", 1>>} |-> MAX_PACKETS_PER_SECOND - RateHeadroom]
    /\ batch = <<>>
    /\ udp_out = <<>>
    /\ packets_dropped = 0
    /\ last_pkt = NoPkt
    /\ pkts_left = MaxPacketsRate
    /\ exp_left = MaxExpiries
    /\ last_cmd = NotRecorded
    /\ NoClient

RateSpec == InitRate /\ [][UdpNext]_vars

\* No server runs: the specifications of the client alone.
NoServer ==
    /\ Constructed
    /\ cmds_left = 0
    /\ coll_left = 0
    /\ bad_left = 0
    /\ InitUdp
    /\ pkts_left = 0
    /\ exp_left = 0
    /\ last_cmd = NotRecorded

\* The client's datagram sender.
InitSend == NoServer /\ ClientConstructed /\ frames_left = MaxFrames /\ rx_left = 0 /\ FineIdle

SendNext == SendFrame

SendSpec == InitSend /\ [][SendNext]_vars

\* The client's datagram sender in front of a scene that seldom changes.
InitStill == NoServer /\ ClientConstructed /\ frames_left = MaxStillFrames /\ rx_left = 0 /\ FineIdle

StillNext == SendStill

StillSpec == InitStill /\ [][StillNext]_vars

\* The client's listener.
InitListen == NoServer /\ ClientConstructed /\ frames_left = 0 /\ rx_left = MaxRx /\ FineIdle

ListenNext == Receive \/ Tick

ListenSpec == InitListen /\ [][ListenNext]_vars

\* The codec alone: one end writes one command and shuts the stream, or sends bytes
\* of its own choice and shuts the stream; the other end reads one command.
Run(n, byte) == [i \in 1..n |-> byte]

Texts == { <<>>, <<65>>, <<65, 0>>, Run(U8_MAX, 65), Run(U8_MAX + 1, 65) }

Blobs == { <<>>, <<255>>, <<0, 255>>, Run(U8_MAX, 200), Run(U8_MAX + 1, 200) }

TextLists ==
    { <<>>, << <<>> >>, << <<65>> >>, << <<65>>, <<>> >>, << <<65, 0>>, <<65>> >>,
      << Run(U8_MAX, 65) >>, << Run(U8_MAX + 1, 65) >>,
      << <<65>>, Run(U8_MAX + 1, 65) >>,
      Run(U8_MAX, <<>>), Run(U8_MAX, <<65>>), Run(U8_MAX + 1, <<>>) }

Commands ==
    { [id |-> TcpCommandIds[i], kind |-> "Simple", payload |-> <<>>] : i \in DOMAIN TcpCommandIds }
    \cup { [id |-> TcpCommandIds[i], kind |-> "String", payload |-> t] :
              i \in DOMAIN TcpCommandIds, t \in Texts }
    \cup { [id |-> TcpCommandIds[i], kind |-> "Bytes", payload |-> b] :
              i \in DOMAIN TcpCommandIds, b \in Blobs }
    \cup { [id |-> TcpCommandIds[i], kind |-> "StringList", payload |-> l] :
              i \in DOMAIN TcpCommandIds, l \in TextLists }

\* Bytes a peer may send: tags of each payload type, the bytes next to the range of
\* the tags, lengths, ASCII and a byte no UTF-8 text contains
WireBytes == {68, 69, 70, 73, 81, 84, 85, 0, 1, 2, 65, 255}

WireInputs == UNION { [1..n -> WireBytes] : n \in 0..MaxWire }

InitCodec ==
    /\ FineIdle
    /\ NoServer
    /\ DatagramTasks
    /\ aired = NotRecorded
    /\ frames_left = 0
    /\ rx_left = 0
    /\ \/ outbox \in Commands /\ stream = <<>>
       \/ outbox = NoCommand /\ stream \in WireInputs
    /\ arriving = <<>>
    /\ wrote = "none"
    /\ rd = NoRead
    /\ inbox = <<>>
    /\ ready_left = 0
    /\ written = <<>>

\* TcpCommand::write_to_stream(outbox)
WriteToStream ==
    /\ outbox # NoCommand
    /\ wrote = "none"
    /\ LET e == Encoded(outbox)
       IN  /\ wrote' = IF e.ok THEN "ok" ELSE "err"
           /\ stream' = stream \o e.bytes
    /\ UNCHANGED <<arriving, outbox, rd, inbox, ready_left, written>>
    /\ UNCHANGED <<send_vars, listen_vars, server_vars, fine_vars>>

\* TcpCommand::read_from_stream awaited to its end, after the peer has shut the stream
ReadFromStream ==
    /\ inbox = <<>>
    /\ outbox = NoCommand \/ wrote # "none"
    /\ LET r == Poll(NoRead, stream, TRUE)
       IN  /\ inbox' = <<[outcome |-> r.outcome, cmd |-> r.cmd, bytes |-> r.rd.taken]>>
           /\ stream' = r.stream
    /\ UNCHANGED <<arriving, outbox, wrote, rd, ready_left, written>>
    /\ UNCHANGED <<send_vars, listen_vars, server_vars, fine_vars>>

CodecNext == WriteToStream \/ ReadFromStream

CodecSpec == InitCodec /\ [][CodecNext]_vars

\* The sender, the network and the listener: the frames of a camera whose picture
\* changes a little from frame to frame, and any of the datagrams sent so far
\* arriving at the listener (lost, repeated or out of order).
PathFrames(last_frame) ==
    IF last_frame = None THEN {KeyFrame}
    ELSE {Bump(last_frame, FRAME_HEADER_LEN + 1), Bump(last_frame, DeltaFrameLen)}

\* The datagrams sent so far as the relay forwards them.
AiredDatagrams ==
    UNION { { ForwardPayload(aired[i].out[k]) : k \in DOMAIN aired[i].out } : i \in DOMAIN aired }

InitPath ==
    /\ FineIdle
    /\ NoServer
    /\ DatagramTasks
    /\ StreamIdle
    /\ aired = <<>>
    /\ frames_left = MaxChanges + 1
    /\ rx_left = MaxRxPath

SendNear == CameraSends(PathFrames(tx.last_frame))

Deliver == Receives(AiredDatagrams)

PathNext == SendNear \/ Deliver

PathSpec == InitPath /\ [][PathNext]_vars

\* The read side of handle_stream's select loop on one connection.
\* The frames a client writes in the loop: a tag alone and a tag with a name; the
\* second name is one byte that is also a tag.
ClientCommands ==
    { [id |-> "LeaveRoom", kind |-> "Simple", payload |-> <<>>],
      [id |-> "CreateRoom", kind |-> "String", payload |-> <<108>>],
      [id |-> "JoinRoom", kind |-> "String", payload |-> <<to_byte("LeaveRoom")>>] }

InitSelect ==
    /\ FineIdle
    /\ NoServer
    /\ DatagramTasks
    /\ aired = NotRecorded
    /\ frames_left = 0
    /\ rx_left = 0
    /\ stream = <<>>
    /\ arriving = <<>>
    /\ outbox = NoCommand
    /\ wrote = "none"
    /\ rd = NoRead
    /\ inbox = <<>>
    /\ ready_left = MaxReady
    /\ written = <<>>

\* handle_stream has not returned: no read has failed or met the end of the stream.
Looping == \A i \in DOMAIN inbox : inbox[i].outcome = "ok"

\* The client's write_to_stream: the frame is on its way.
ClientWrites ==
    /\ Len(written) < MaxWrites
    /\ \E cmd \in ClientCommands :
         /\ Encoded(cmd).ok
         /\ arriving' = arriving \o Encoded(cmd).bytes
         /\ written' = Append(written, cmd)
    /\ UNCHANGED <<stream, outbox, wrote, rd, inbox, ready_left>>
    /\ UNCHANGED <<send_vars, listen_vars, server_vars, fine_vars>>

\* Some of the bytes on their way arrive at the server's socket.
Arrive ==
    /\ arriving # <<>>
    /\ \E n \in 1..Len(arriving) :
         /\ stream' = stream \o SubSeq(arriving, 1, n)
         /\ arriving' = SubSeq(arriving, n + 1, Len(arriving))
    /\ UNCHANGED <<outbox, wrote, rd, inbox, ready_left, written>>
    /\ UNCHANGED <<send_vars, listen_vars, server_vars, fine_vars>>

\* handle_stream lines 46-64: the select polls the read_from_stream future of this
\* iteration on the bytes that have arrived.  The future takes what it can use and
\* stays pending, or completes: the branch runs with its result, the command is
\* dispatched, and the next iteration starts a new future.
SelectRead ==
    /\ Looping
    /\ stream # <<>>
    /\ LET r == Poll(rd, stream, FALSE)
       IN  /\ stream' = r.stream
           /\ IF r.outcome = "pending"
              THEN rd' = r.rd /\ inbox' = inbox
              ELSE /\ rd' = NoRead
                   /\ inbox' = Append(inbox, [outcome |-> r.outcome, cmd |-> r.cmd,
                                              bytes |-> r.rd.taken])
    /\ UNCHANGED <<arriving, outbox, wrote, ready_left, written>>
    /\ UNCHANGED <<send_vars, listen_vars, server_vars, fine_vars>>

\* handle_stream lines 66-71: a message is ready on the outbound channel and the
\* select runs the recv branch; the read_from_stream future of this iteration is
\* dropped with its locals, and line 48 starts a new one in the next iteration.
SelectRecv ==
    /\ Looping
    /\ ready_left > 0
    /\ ready_left' = ready_left - 1
    /\ rd' = NoRead
    /\ UNCHANGED <<stream, arriving, outbox, wrote, inbox, written>>
    /\ UNCHANGED <<send_vars, listen_vars, server_vars, fine_vars>>

SelectNext == ClientWrites \/ Arrive \/ SelectRead \/ SelectRecv

SelectSpec == InitSelect /\ [][SelectNext]_vars

InitLocks ==
    /\ NoServer
    /\ NoClient
    /\ LocksFree
    /\ ops_left = MaxOps
    /\ FlushIdle

LockNext == \E t \in LockTasks : StartOp(t) \/ Request(t) \/ Grant(t) \/ Release(t)

LockSpec == InitLocks /\ [][LockNext]_vars

\* ---------------------------------------------------------------- the client
\* pre_call_interface join_room lines 277-291: what the client makes of the answer
\* to its JoinRoom
join_room(received_command) ==
    IF received_command.kind = "Bytes" /\ received_command.id = "JoinRoomSuccess"
    THEN IF Len(received_command.payload) # RID_LEN + SID_LEN
         THEN [result |-> "Err", value |-> <<"Unexpected payload length from server during join_room">>]
         ELSE [result |-> "Some", value |-> received_command.payload]
    ELSE IF received_command.kind = "String" /\ received_command.id = "ErrorResponse"
    THEN [result |-> "None", value |-> <<>>]
    ELSE [result |-> "Err", value |-> <<"Invalid command from server during join_room">>]

\* ------------------------------------------------------------------- claims
Tables == {"video", "audio"}

Count(seq, x) == Cardinality({ i \in DOMAIN seq : seq[i] = x })

\* The StreamIDs generated by the joins of connection c.
SidsOf(c) == { issued[i][2] : i \in { j \in DOMAIN issued : issued[j][1] = c } }

InSomeTable(sid) == \E rid \in DOMAIN rooms, t \in Tables : sid \in DOMAIN rooms[rid][t]

\* The connection's stream is open and its username has been accepted.
Live(c) == pc[c] \in {"helloed", "registered", "loop", "joinRespond", "leaveBroadcast"}

\* C1: once the teardown of a connection has completed, no room's members list
\* holds its username and no stream table of any room holds a StreamID that was
\* issued to it (the username being that of no other connection).
C1_TeardownLeavesNothing ==
    \A c \in Conns :
        (/\ pc[c] = "closed"
         /\ uname[c] # None
         /\ \A c2 \in Conns \ {c} : uname[c2] # uname[c])
        => /\ \A rid \in DOMAIN rooms : uname[c] \notin Range(rooms[rid].users)
           /\ \A sid \in SidsOf(c) : ~InSomeTable(sid)

\* C2: the locked section of a LeaveRoom of a connection with a current session
\* leaves neither StreamID of the session in any stream table, removes the username
\* from the members of the room that held them and clears the session; the
\* broadcast that follows enqueues OtherUserLeftRoom for each of the two StreamIDs
\* to every remaining member whose channel is open.
C2_LeaveRoomRemovesSession ==
    [][\A c \in Conns :
         /\ (pc[c] = "loop" /\ pc'[c] = "leaveBroadcast") =>
               /\ \A rid \in DOMAIN rooms', t \in Tables, i \in {1, 2} :
                     csid[c][i] \notin DOMAIN rooms'[rid][t]
               /\ \A rid \in DOMAIN rooms :
                     (\E t \in Tables, i \in {1, 2} : csid[c][i] \in DOMAIN rooms[rid][t])
                     => uname[c] \notin Range(rooms'[rid].users)
               /\ csid'[c] = None
         /\ (pc[c] = "leaveBroadcast" /\ pc'[c] = "loop") =>
               \A u \in Range(pend[c].affected), i \in {1, 2} :
                  (u \in DOMAIN txmap /\ RxAlive(txmap[u])) =>
                     Count(chan'[txmap[u]], OtherUserLeftRoom(pend[c].session[i]))
                        > Count(chan[txmap[u]], OtherUserLeftRoom(pend[c].session[i]))
      ]_vars

DatagramRid(buf) == SubSeq(buf, 1, RID_LEN)
DatagramSid(buf) == SubSeq(buf, RID_LEN + 1, RID_LEN + SID_LEN)
DatagramMedia(buf) == SubSeq(buf, RID_LEN + SID_LEN + 1, Len(buf))

\* The table of room rid that a datagram carrying sid belongs to.
TableOf(rid, sid) == IF sid \in DOMAIN rooms[rid].video THEN "video" ELSE "audio"

\* The other StreamIDs of that table whose address is learned, and their addresses.
Peers(rid, sid) ==
    { s \in DOMAIN rooms[rid][TableOf(rid, sid)] :
        s # sid /\ rooms[rid][TableOf(rid, sid)][s] # None }

PeerAddrs(rid, sid) == { rooms[rid][TableOf(rid, sid)][s] : s \in Peers(rid, sid) }

SentTo(out) == { out[i].dest : i \in DOMAIN out }

\* The send_to calls out carry StreamID || media of buf, one to each learned peer of
\* the StreamID of buf.
SentToPeers(out, buf) ==
    /\ SentTo(out) = PeerAddrs(DatagramRid(buf), DatagramSid(buf))
    /\ Len(out) = Cardinality(Peers(DatagramRid(buf), DatagramSid(buf)))
    /\ \A i \in DOMAIN out : out[i].bytes = DatagramSid(buf) \o DatagramMedia(buf)

\* A datagram is received and its StreamID is found in a table of its room.
Found == pkts_left' # pkts_left /\ udp'.buf # <<>>

C4_StreamIDInOneTable ==
    \A sid \in TableSids :
        Cardinality({ rt \in (DOMAIN rooms) \X Tables : sid \in DOMAIN rooms[rt[1]][rt[2]] }) = 1

\* C5: every username in a room's members list is in the user registry.
C5_MembersRegistered ==
    \A rid \in DOMAIN rooms : \A i \in DOMAIN rooms[rid].users :
        rooms[rid].users[i] \in Range(users)

\* C6: no two connections whose handshake has been accepted and whose stream is
\* open have the same username, and the user registry holds no username twice.
C6_UsernamesUnique ==
    /\ \A c1, c2 \in Conns : (c1 # c2 /\ Live(c1) /\ Live(c2)) => uname[c1] # uname[c2]
    /\ \A i, j \in DOMAIN users : i # j => users[i] # users[j]

\* C7: while a StreamID stays in a table its address, once learned, does not
\* change, and an absent address changes only to the source address of the
\* datagram being handled, which carries that StreamID.
C7_AddressSetOnce ==
    [][\A rid \in DOMAIN rooms, t \in Tables : \A sid \in DOMAIN rooms[rid][t] :
          (rid \in DOMAIN rooms' /\ sid \in DOMAIN rooms'[rid][t]) =>
             IF rooms[rid][t][sid] # None
             THEN rooms'[rid][t][sid] = rooms[rid][t][sid]
             ELSE \/ rooms'[rid][t][sid] = None
                  \/ /\ udp.sid = sid
                     /\ rooms'[rid][t][sid] = udp.from_addr
      ]_vars

Quiescent == \A c \in Conns : pc[c] \in {"accepted", "loop", "closed"} /\ chan[c] = <<>>

\* C9: once every queued notification has been written, of any two connected users
\* that are members of one room each has been sent, since it joined,
\* OtherUserJoinedRoom exactly once for each StreamID of the other's current session.
C9_SymmetricJoinKnowledge ==
    Quiescent =>
        \A c1, c2 \in Conns :
            (/\ c1 # c2
             /\ pc[c1] = "loop" /\ pc[c2] = "loop"
             /\ uname[c1] # uname[c2]
             /\ csid[c2] # None
             /\ \E rid \in DOMAIN rooms : {uname[c1], uname[c2]} \subseteq Range(rooms[rid].users))
            => \A i \in {1, 2} : Count(heard[c1], csid[c2][i]) = 1

\* C10: a JoinRoomSuccess frame written to a connection carries |RoomID|+|StreamID|
\* bytes, the RoomID of the joined room followed by the joiner's video StreamID, and
\* the client's join_room returns them.
C10_JoinRoomSuccessPayload ==
    \A c \in Conns : \A i \in DOMAIN sent[c] :
        sent[c][i].id = "JoinRoomSuccess" =>
            /\ Len(sent[c][i].payload) = RID_LEN + SID_LEN
            /\ \E rid \in DOMAIN rooms : sent[c][i].payload = rid \o csid[c][1]
            /\ join_room(sent[c][i]) = [result |-> "Some", value |-> sent[c][i].payload]

\* C11: no room's members list holds a username twice.
C11_MemberAtMostOnce ==
    \A rid \in DOMAIN rooms : \A i, j \in DOMAIN rooms[rid].users :
        i # j => rooms[rid].users[i] # rooms[rid].users[j]

\* A command has just been read: the one recorded in last_cmd'.
ReadCmd(id) == cmds_left' # cmds_left /\ last_cmd'.id = id

\* C12: a DeleteRoom removes the room of that name and is answered
\* DeleteRoomSuccess exactly when a room of that name exists and has no members
\* when the registry is locked; otherwise it is answered ErrorResponse and the
\* registry is unchanged.  No step removes a room that has members.
C12_DeleteRoomOnlyWhenEmpty ==
    [][/\ ReadCmd("DeleteRoom") =>
             LET c == last_cmd'.conn
                 named == RoomsNamed(last_cmd'.name)
             IN  IF named # {} /\ \A rid \in named : rooms[rid].users = <<>>
                 THEN /\ sent'[c] = <<Simple("DeleteRoomSuccess")>>
                      /\ \E rid \in named : rooms' = MapRemove(rooms, rid)
                 ELSE /\ Len(sent'[c]) = 1
                      /\ sent'[c][1].id = "ErrorResponse"
                      /\ rooms' = rooms
       /\ \A rid \in DOMAIN rooms : rid \notin DOMAIN rooms' => rooms[rid].users = <<>>
      ]_vars

\* A DeleteRoom for a room that has a member has been answered ErrorResponse.
C12_Witness ==
    /\ last_cmd.id = "DeleteRoom"
    /\ sent[last_cmd.conn] # <<>>
    /\ sent[last_cmd.conn][1].id = "ErrorResponse"
    /\ \E rid \in DOMAIN rooms : rooms[rid].name = last_cmd.name /\ Len(rooms[rid].users) > 0

\* The rooms of the registry that carry the name.
Named(name) == { rid \in DOMAIN rooms : rooms[rid].name = name }

ValidRoomName(name) ==
    ~TrimIsEmpty(name) /\ Len(name) <= MAX_NAME_LENGTH /\ is_valid_name(name)

\* C13: no two rooms of the registry have the same name; a CreateRoom with a valid
\* name is answered CreateRoomSuccess, and adds a room of that name, exactly when
\* no room of that name is in the registry when it is locked, and is answered
\* ErrorResponse and leaves the registry unchanged otherwise: while the room exists
\* every further CreateRoom of the name is refused.
C13_RoomNamesUnique ==
    [][/\ \A r1, r2 \in DOMAIN rooms' : r1 # r2 => rooms'[r1].name # rooms'[r2].name
       /\ (ReadCmd("CreateRoom") /\ ValidRoomName(last_cmd'.name)) =>
             LET c == last_cmd'.conn
                 name == last_cmd'.name
             IN  IF Named(name) = {}
                 THEN /\ sent'[c] = <<Simple("CreateRoomSuccess")>>
                      /\ \E rid \in DOMAIN rooms' : rooms'[rid] = NewRoom(name)
                 ELSE /\ sent'[c] = <<ErrorResponse(<<"Room '", name, "' already exists">>)>>
                      /\ rooms' = rooms
      ]_vars

\* A CreateRoom has been refused because a room of that name exists.
C13_Witness ==
    /\ last_cmd.id = "CreateRoom"
    /\ ValidRoomName(last_cmd.name)
    /\ sent[last_cmd.conn] = <<ErrorResponse(<<"Room '", last_cmd.name, "' already exists">>)>>
    /\ Cardinality(Named(last_cmd.name)) = 1

\* A step that puts a room into the registry: a RoomID appears or the room under a
\* RoomID gets another name (a CreateRoom only succeeds for a name no room has).
RoomCreated == \E rid \in DOMAIN rooms' : rid \notin DOMAIN rooms \/ rooms'[rid].name # rooms[rid].name

\* C14: a successful CreateRoom uses a RoomID that no room of the registry has and
\* that the process never used before; it adds one empty room and leaves every
\* room that was there as it was.
C14_CreateRoomFreshID ==
    [][RoomCreated =>
          \E rid \in DOMAIN rooms' :
             /\ rid \notin DOMAIN rooms
             /\ rid \notin seen_rids
             /\ rooms'[rid] = NewRoom(rooms'[rid].name)
             /\ DOMAIN rooms' = DOMAIN rooms \cup {rid}
             /\ \A r \in DOMAIN rooms : rooms'[r] = rooms[r]
      ]_vars

\* Every chunk 0..n-1 of a frame, the last-flagged one among them, has been received
\* exactly once and the frame is still waiting in the fragment buffer.
AllChunksWaiting(sid) ==
    LET fb == fragment_buffers[sid]
    IN  /\ fb.expected_chunks > 0
        /\ DOMAIN fb.chunks = 0..(fb.expected_chunks - 1)
        /\ received[sid] = fb.expected_chunks

\* C15: once every chunk of a frame has been received exactly once, in whatever
\* order, the frame has been put together and dispatched: it does not wait in the
\* fragment buffer; and a Full frame that is put together from the chunks the sender
\* makes of it is the cached frame.
C15_ReassemblyAnyOrder ==
    /\ \A sid \in DOMAIN fragment_buffers : ~AllChunksWaiting(sid)
    /\ \A sid \in DOMAIN frame_caches :
          (frame_caches[sid].reconstructed_frame # None /\ frame_caches[sid].last_sequence = 1)
          => frame_caches[sid].reconstructed_frame \in {LongFrame, FrameA}

\* The payload of the frame whose datagrams are out (one chunk here): what follows
\* the prefix, the type, the sequence, the chunk id and the last flag.
SentType(out) == out[1][Len(PrefixA) + 1]
SentPayload(out) == Slice(out[1], Len(PrefixA) + 10, Len(out[1]))

\* Serialising, deserialising and applying the delta list to old gives new.
RoundTrip(old, new, deltas) ==
    LET r == deserialize_deltas(serialize_deltas_optimized(deltas))
        a == apply_delta_safe(old, r.deltas)
    IN  r.ok /\ r.deltas = deltas /\ a.ok /\ a.frame = new

\* C16: whenever create_delta_optimized(old, new) returns a delta list for two
\* frames of equal length, the list serialised, deserialised and applied with
\* apply_delta_safe to old gives new; so does the payload of the Delta the sender
\* has sent for the two frames.
C16_DeltaRoundTrip ==
    (tx_prev # None /\ Len(tx_prev) = Len(tx.last_frame)) =>
        /\ create_delta_optimized(tx_prev, tx.last_frame).some =>
              RoundTrip(tx_prev, tx.last_frame,
                        create_delta_optimized(tx_prev, tx.last_frame).deltas)
        /\ (tx_out # <<>> /\ SentType(tx_out) = FrameTypeDelta) =>
              /\ Len(tx_out) = 1
              /\ deserialize_deltas(SentPayload(tx_out)).ok
              /\ apply_delta_safe(tx_prev, deserialize_deltas(SentPayload(tx_out)).deltas)
                    = [ok |-> TRUE, frame |-> tx.last_frame]

\* A Delta of two entries has been sent.
C16_Witness ==
    /\ tx_prev # None
    /\ tx_out # <<>>
    /\ SentType(tx_out) = FrameTypeDelta
    /\ Len(deserialize_deltas(SentPayload(tx_out)).deltas) = 2
    /\ tx.last_frame # tx_prev

\* The listener's maps as one iteration takes them.
ListenState ==
    [buffers |-> fragment_buffers, caches |-> frame_caches, frames |-> sid_to_frame_map]

\* The step is an iteration of the listener that received ListenerInputs[k] while
\* the frame map's lock was held (locked) or free.
ReceivedAs(k, locked) ==
    /\ rx_left' # rx_left
    /\ LET r == ListenIteration(ListenState, ListenerInputs[k], now, locked)
       IN  /\ fragment_buffers' = r.buffers
           /\ frame_caches' = r.caches
           /\ sid_to_frame_map' = r.frames

\* The chunks of the frame buf belongs to that wait in the fragment buffer.
ChunksWaiting(buf) ==
    IF /\ PacketSid(buf) \in DOMAIN fragment_buffers
       /\ fragment_buffers[PacketSid(buf)].sequence = PacketSequence(buf)
    THEN fragment_buffers[PacketSid(buf)].chunks
    ELSE EmptyMap

\* The datagram buf is the last-flagged chunk of a frame and completes it.
Completes(buf) ==
    /\ Len(buf) > SID_LEN + 10
    /\ PacketType(buf) \in {FrameTypeFull, FrameTypeDelta}
    /\ PacketIsLast(buf)
    /\ Cardinality(DOMAIN ChunksWaiting(buf) \cup {PacketChunkId(buf)}) = PacketChunkId(buf) + 1

\* The type and the bytes of the frame that buf completes.
ReassembledType(buf) ==
    IF /\ PacketSid(buf) \in DOMAIN fragment_buffers
       /\ fragment_buffers[PacketSid(buf)].sequence = PacketSequence(buf)
    THEN fragment_buffers[PacketSid(buf)].frame_type
    ELSE PacketType(buf)

ReassembledData(buf) ==
    ConcatFrom(MapPut(ChunksWaiting(buf), PacketChunkId(buf), PacketChunkData(buf)), 0)

\* The reconstructed frame cached for a peer and the frame published for it, None
\* where there is none.
CachedFrame(caches, sid) ==
    IF sid \in DOMAIN caches THEN caches[sid].reconstructed_frame ELSE None

PublishedFrame(frames, sid) == IF sid \in DOMAIN frames THEN frames[sid] ELSE None

IsCorrupted(caches, sid) == sid \in DOMAIN caches /\ caches[sid].corrupted

\* The payload of a Delta does not deserialize, or one of its entries ends beyond
\* the frame base.
BadDelta(data, base) ==
    \/ ~deserialize_deltas(data).ok
    \/ /\ base # None
       /\ \E i \in DOMAIN deserialize_deltas(data).deltas :
             LET delta == deserialize_deltas(data).deltas[i]
             IN  delta.offset + Len(delta.data) > Len(base)

\* C17: an iteration of the listener that completes a Delta which does not
\* deserialize, or which has an entry with offset + len greater than the size of
\* the peer's cached frame, leaves the peer's cached reconstructed frame as it was,
\* publishes no frame for the peer and leaves the peer's cache marked corrupted.
C17_BadDeltaFailsWhole ==
    [][ \A k \in DOMAIN ListenerInputs, locked \in BOOLEAN :
          LET buf == ListenerInputs[k]
              sid == PacketSid(buf)
          IN  ( /\ Completes(buf)
                /\ ReassembledType(buf) = FrameTypeDelta
                /\ BadDelta(ReassembledData(buf), CachedFrame(frame_caches, sid))
                /\ ReceivedAs(k, locked) )
              => /\ CachedFrame(frame_caches', sid) = CachedFrame(frame_caches, sid)
                 /\ PublishedFrame(sid_to_frame_map', sid) = PublishedFrame(sid_to_frame_map, sid)
                 /\ IsCorrupted(frame_caches', sid)
      ]_vars

\* Peer A's frame FrameA was cached and published, and a Delta that arrived before
\* any buffer could expire has left the cache corrupted with FrameA still in it.
C17_Witness ==
    /\ now = 0
    /\ IsCorrupted(frame_caches, PacketSid(ListenerInputs[3]))
    /\ CachedFrame(frame_caches, PacketSid(ListenerInputs[3])) = FrameA
    /\ PublishedFrame(sid_to_frame_map, PacketSid(ListenerInputs[3])) = FrameA

\* A Delta that can be applied to the frame base: it deserializes and every entry
\* ends within the frame.
GoodDelta(data, base) == base # None /\ ~BadDelta(data, base)

\* C18: while a peer's cache is marked corrupted, an iteration of the listener that
\* completes a Delta for the peer changes neither the cache nor the published
\* frame, and the mark goes away only in an iteration that completes a Full frame;
\* an iteration that completes a Full frame leaves the cache at (frame_data,
\* sequence, corrupted = false) and frame_data published; and a Delta that is
\* completed while the cache is not corrupted and can be applied is applied to the
\* cached frame and the result is published.
C18_CorruptedUntilFull ==
    [][ /\ \A k \in DOMAIN ListenerInputs, locked \in BOOLEAN :
             LET buf == ListenerInputs[k]
                 sid == PacketSid(buf)
                 frame_data == ReassembledData(buf)
             IN  (Completes(buf) /\ ReceivedAs(k, locked)) =>
                   /\ (ReassembledType(buf) = FrameTypeDelta /\ IsCorrupted(frame_caches, sid))
                      => /\ frame_caches'[sid] = frame_caches[sid]
                         /\ PublishedFrame(sid_to_frame_map', sid)
                               = PublishedFrame(sid_to_frame_map, sid)
                   /\ ReassembledType(buf) = FrameTypeFull
                      => /\ frame_caches'[sid] = reset(frame_data, PacketSequence(buf))
                         /\ PublishedFrame(sid_to_frame_map', sid) = frame_data
                   /\ ( /\ ReassembledType(buf) = FrameTypeDelta
                        /\ ~IsCorrupted(frame_caches, sid)
                        /\ GoodDelta(frame_data, CachedFrame(frame_caches, sid)) )
                      => LET a == apply_delta_safe(CachedFrame(frame_caches, sid),
                                                   deserialize_deltas(frame_data).deltas)
                         IN  /\ CachedFrame(frame_caches', sid) = a.frame
                             /\ ~IsCorrupted(frame_caches', sid)
                             /\ PublishedFrame(sid_to_frame_map', sid) = a.frame
        /\ \A sid \in DOMAIN frame_caches :
             (IsCorrupted(frame_caches, sid) /\ ~IsCorrupted(frame_caches', sid))
             => \E k \in DOMAIN ListenerInputs :
                   /\ PacketSid(ListenerInputs[k]) = sid
                   /\ Completes(ListenerInputs[k])
                   /\ ReassembledType(ListenerInputs[k]) = FrameTypeFull
                   /\ frame_caches'[sid] = reset(ReassembledData(ListenerInputs[k]),
                                                 PacketSequence(ListenerInputs[k]))
      ]_vars

\* The delta list of one entry that replaces the two bytes at offset 2 by 9, 9, and
\* its serialised form: count = 1, offset = 2, len = 2, bytes = 9, 9.
ExampleDeltas == <<[offset |-> 2, data |-> <<9, 9>>]>>
ExampleDeltaBytes == <<0, 0, 0, 1, 0, 0, 0, 2, 0, 0, 0, 2, 9, 9>>

\* The sender has sent old = [0,1,2,3,4,5,6,7] and then taken new = [0,1,9,9,4,5,6,7]
\* from the camera.
ExampleSent == tx_prev = ImageA /\ tx.last_frame = ImageB

\* C19 as stated: for old = [0,1,2,3,4,5,6,7] already sent and new =
\* [0,1,9,9,4,5,6,7] the sender selects type Delta and emits the delta list count =
\* 1, offset = 2, len = 2, bytes = [9,9], which applied to a cached old gives new.
C19_ExampleSentAsDelta ==
    ExampleSent =>
        /\ Len(tx_out) = 1
        /\ SentType(tx_out) = FrameTypeDelta
        /\ SentPayload(tx_out) = ExampleDeltaBytes
        /\ apply_delta_safe(ImageA, deserialize_deltas(SentPayload(tx_out)).deltas)
              = [ok |-> TRUE, frame |-> ImageB]

\* C19: for old = [0,1,2,3,4,5,6,7] already sent and new = [0,1,9,9,4,5,6,7] the
\* delta list of the one differing run costs 2 + 8 = 10 bytes, which is not below
\* the threshold of 30 percent of the 8 bytes of the frame (2), so that
\* create_delta_optimized returns no list and the sender selects type Full and
\* emits new in one datagram; the delta list count = 1, offset = 2, len = 2, bytes =
\* [9,9] is the serialised form of that run, and deserialised and applied to a
\* cached old it gives new.
C19_ExampleSentAsFull ==
    ExampleSent =>
        /\ create_delta_optimized(ImageA, ImageB) = NoDelta
        /\ Len(tx_out) = 1
        /\ SentType(tx_out) = FrameTypeFull
        /\ SentPayload(tx_out) = ImageB
        /\ serialize_deltas_optimized(ExampleDeltas) = ExampleDeltaBytes
        /\ deserialize_deltas(ExampleDeltaBytes) = [ok |-> TRUE, deltas |-> ExampleDeltas]
        /\ apply_delta_safe(ImageA, ExampleDeltas) = [ok |-> TRUE, frame |-> ImageB]

\* The sender has sent old and then new.
C19_Witness == ExampleSent /\ tx_out # <<>> /\ tx.sequence = 2

\* The peer whose fragment buffer an iteration that receives buf works on, None if
\* the datagram is not a chunk of a Full or Delta frame.
ReceivingSid(buf) ==
    IF Len(buf) > SID_LEN + 10 /\ PacketType(buf) \in {FrameTypeFull, FrameTypeDelta}
    THEN PacketSid(buf)
    ELSE None

\* The fragment buffer of sid was last updated CHUNK_TIMEOUT or longer ago.
Expired(sid) == now - fragment_buffers[sid].last_update >= CHUNK_TIMEOUT

\* The step has evicted the expired fragment buffers and marked their peers' caches,
\* and has left alone the other buffers and caches; the buffer and the cache of the
\* peer whose chunk the iteration received are the iteration's own business.
EvictionDone(receiving) ==
    /\ \A sid \in DOMAIN fragment_buffers \ {receiving} :
          IF Expired(sid)
          THEN /\ sid \notin DOMAIN fragment_buffers'
               /\ sid \in DOMAIN frame_caches
                  => frame_caches'[sid] = mark_corrupted(frame_caches[sid])
          ELSE /\ sid \in DOMAIN fragment_buffers'
               /\ fragment_buffers'[sid] = fragment_buffers[sid]
    /\ \A sid \in DOMAIN frame_caches \ {receiving} :
          (sid \notin DOMAIN fragment_buffers \/ ~Expired(sid))
          => frame_caches'[sid] = frame_caches[sid]

\* C20: in every iteration of the listener that received a datagram, every fragment
\* buffer whose last_update is 50 ms old or older is evicted and the cache of its
\* peer, if there is one, is marked corrupted; the fragment buffers that are not
\* expired and the caches of the other peers are left as they were.
C20_EvictionEachIteration ==
    [][ \A k \in DOMAIN ListenerInputs, locked \in BOOLEAN :
          EvictionDone(ReceivingSid(ListenerInputs[k])) \/ ~ReceivedAs(k, locked)
      ]_vars

\* C21: of the consecutive frames that equal the frame sent before them, the first
\* 29 make the sender emit nothing, every 30th makes it emit one Heartbeat datagram
\* (type 2, chunk_id 0, last 1, no body) and leaves the skip counter at 0; a frame
\* that differs is sent as Full or Delta and leaves the skip counter at 0.
C21_HeartbeatEvery30th ==
    tx.sequence > 0 =>
        /\ (still_run > 0 /\ still_run % 30 # 0) =>
              /\ tx_out = <<>>
              /\ tx.heartbeat_counter = still_run % 30
        /\ (still_run > 0 /\ still_run % 30 = 0) =>
              /\ tx_out = << PrefixA \o <<2>> \o to_be_bytes(tx.sequence)
                               \o <<0, 0, 0, 0>> \o <<1>> >>
              /\ tx.heartbeat_counter = 0
        /\ still_run = 0 =>
              /\ tx_out # <<>>
              /\ SentType(tx_out) \in {FrameTypeFull, FrameTypeDelta}
              /\ tx.heartbeat_counter = 0

\* The second Heartbeat of a run of 60 unchanged frames has been sent.
C21_Witness == still_run = 60 /\ Len(tx_out) = 1 /\ SentType(tx_out) = FrameTypeHeartbeat

\* The server has answered connection c with HelloFromServer and the connection has
\* not terminated: handle_stream has not returned.
Connected(c) == pc[c] \notin {"accepted", "closed", "teardown", "teardownTx", "teardownRooms"}

\* C22: from the moment the server has sent HelloFromServer on a connection until
\* the connection terminates, the connection's username is in the user registry
\* and has an entry in the map of outbound-command channels.
C22_RegisteredWhileConnected ==
    \A c \in Conns :
        Connected(c) => uname[c] \in Range(users) /\ uname[c] \in DOMAIN txmap

\* The step is the handling of connection c's first frame, HelloFromClient(name).
ReadHello(c, name) ==
    /\ pc[c] = "accepted"
    /\ pc'[c] # "accepted"
    /\ last_cmd' = [conn |-> c, id |-> "HelloFromClient", name |-> name]

\* The reasons for which the server refuses the username name.
RefusalReasons(name) ==
    (IF Len(name) > 15
     THEN {"Username must be less than or equal to 15 characters."} ELSE {})
    \cup (IF \E i \in DOMAIN name : name[i] \notin ValidChars
          THEN {"Username must contain only letters, numbers, underscores (_), or hyphens (-)."}
          ELSE {})
    \cup (IF name \in Range(users) THEN {"Username is already taken."} ELSE {})

\* C23: a handshake whose username is longer than 15 characters, has a character
\* outside [A-Za-z0-9_-] or is in the user registry is answered with one
\* ErrorResponse that carries a reason that applies, and the connection is closed;
\* the user registry, the map of outbound-command channels and the room registry are
\* as before; and the closed connection's task takes no further step, so that no
\* teardown runs for it and a connection that holds the name stays registered.
C23_RejectedHandshake ==
    [][ \A c \in Conns :
          /\ \A name \in HelloNames :
                (ReadHello(c, name) /\ RefusalReasons(name) # {}) =>
                    /\ \E reason \in RefusalReasons(name) : sent'[c] = <<ErrorResponse(reason)>>
                    /\ pc'[c] = "closed"
                    /\ uname'[c] = None
                    /\ users' = users
                    /\ txmap' = txmap
                    /\ rooms' = rooms
          /\ (pc[c] = "closed" /\ uname[c] = None) => (pc'[c] = "closed" /\ sent'[c] = sent[c])
      ]_vars

\* A connection has been refused a name that another connection holds, and that
\* connection is in its command loop, registered and with its channel.
C23_Witness ==
    /\ last_cmd.id = "HelloFromClient"
    /\ pc[last_cmd.conn] = "closed"
    /\ sent[last_cmd.conn] = <<ErrorResponse("Username is already taken.")>>
    /\ \E c \in Conns :
          /\ pc[c] = "loop"
          /\ uname[c] = last_cmd.name
          /\ uname[c] \in Range(users)
          /\ uname[c] \in DOMAIN txmap

\* C24: every username in the user registry has between 1 and 15 characters, all of
\* them in [A-Za-z0-9_-]; and a connection whose HelloFromClient carried any other
\* string, the empty one included, has been refused: it has no username.
C24_RegisteredNamesValid ==
    /\ \A i \in DOMAIN users :
          /\ Len(users[i]) >= 1
          /\ Len(users[i]) <= 15
          /\ \A k \in DOMAIN users[i] : users[i][k] \in ValidChars
    /\ \A c \in Conns :
          uname[c] # None =>
              /\ Len(uname[c]) >= 1
              /\ Len(uname[c]) <= 15
              /\ \A k \in DOMAIN uname[c] : uname[c][k] \in ValidChars

\* The room name name is blank, too long or has a character outside [A-Za-z0-9_-].
BadRoomName(name) ==
    \/ \A i \in DOMAIN name : name[i] = " "
    \/ Len(name) > 15
    \/ \E i \in DOMAIN name : name[i] \notin ValidChars

\* Command id with room name name fails validation in the current state.
FailsValidation(id, name) ==
    \/ id = "CreateRoom" /\ (BadRoomName(name) \/ \E rid \in DOMAIN rooms : rooms[rid].name = name)
    \/ id = "DeleteRoom" /\ \/ ~\E rid \in DOMAIN rooms : rooms[rid].name = name
                            \/ \E rid \in DOMAIN rooms :
                                  rooms[rid].name = name /\ rooms[rid].users # <<>>
    \/ id = "JoinRoom" /\ ~\E rid \in DOMAIN rooms : rooms[rid].name = name

TearingDown(c) == pc[c] \in {"teardown", "teardownTx", "teardownRooms"}

C26_LeaveWithoutSession ==
    [][ /\ (ReadCmd("LeaveRoom") /\ csid[last_cmd'.conn] = None)
            => /\ sent'[last_cmd'.conn] = <<>>
               /\ rooms' = rooms
               /\ users' = users
               /\ pc'[last_cmd'.conn] = "teardown"
        /\ \A c \in Conns :
              TearingDown(c)
                  => /\ TearingDown(c)' \/ pc'[c] = "closed"
                     /\ sent'[c] = <<>>
                     /\ (pc[c] = "teardown" /\ pc'[c] # "teardown")
                            => uname[c] \notin Range(users')
                     /\ (pc[c] = "teardownTx" /\ pc'[c] # "teardownTx")
                            => uname[c] \notin DOMAIN txmap' ]_vars

C26_Witness ==
    /\ last_cmd.id = "LeaveRoom"
    /\ left[last_cmd.conn] = None
    /\ pc[last_cmd.conn] = "closed"
    /\ uname[last_cmd.conn] \notin Range(users)
    /\ uname[last_cmd.conn] \notin DOMAIN txmap
    /\ \E rid \in DOMAIN rooms : rooms[rid].users # <<>>

\* C27: an overflow of a user's outbound-command channel is not fatal: a
\* connection in its command loop whose channel has overflowed stays in the
\* command loop (and so stays registered and in its room) on every step other
\* than the reading of a command.
C27_OverflowNotFatal ==
    [][ \A c \in Conns :
           (pc[c] = "loop" /\ lagged[c] /\ cmds_left' = cmds_left)
               => /\ pc'[c] = "loop"
                  /\ uname[c] \in Range(users') ]_vars

\* C28: the frames written to a connection are written whole and in the order
\* they are emitted.  A connection's channel changes only by a send at its back
\* (on overflow, with the loss of its oldest entries), by the removal of its
\* front, which is then the frame appended to what the connection has been sent,
\* or by the end of the connection; what a connection has been sent changes only
\* by such an append, by the single frame that answers a handshake or a command,
\* by the frames of a join, which are JoinRoomSuccess followed by the
\* OtherUserJoinedRoom frames of the snapshot, or by the end of the connection.
IsPrefix(s, t) == Len(s) <= Len(t) /\ SubSeq(t, 1, Len(s)) = s

Forwards(c) ==
    /\ chan[c] # <<>>
    /\ chan'[c] = Tail(chan[c])
    /\ sent'[c] = Append(sent[c], Head(chan[c]))

C28_FramesInOrder ==
    [][ \A c \in Conns :
          /\ \/ IsPrefix(chan[c], chan'[c])
             \/ /\ lagged'[c]
                /\ Len(chan'[c]) = ChannelCapacity
                /\ \E k \in 1..Len(chan[c]) :
                      IsPrefix(SubSeq(chan[c], k + 1, Len(chan[c])), chan'[c])
             \/ Forwards(c)
             \/ chan'[c] = <<>> /\ ~RxAlive(c)'
          /\ \/ sent'[c] = sent[c]
             \/ sent'[c] = <<>>
             \/ Forwards(c)
             \/ /\ Len(sent'[c]) = 1
                /\ chan'[c] = chan[c]
                /\ pc[c] \in {"accepted", "loop"}
             \/ /\ pc[c] = "joinRespond"
                /\ sent'[c] =
                      <<BytesCmd("JoinRoomSuccess",
                                 JoinRoomSuccessPayload(pend[c].rid, pend[c].video_sid,
                                                        pend[c].audio_sid))>>
                      \o [i \in 1..Len(pend[c].other_video_sids) |->
                             OtherUserJoinedRoom(pend[c].other_video_sids[i])]
                      \o [i \in 1..Len(pend[c].other_audio_sids) |->
                             OtherUserJoinedRoom(pend[c].other_audio_sids[i])]
          /\ \A i \in 1..Len(sent'[c]) :
                sent'[c][i].id = "JoinRoomSuccess" => i = 1 ]_vars

\* Two members of a room: each has been sent its JoinRoomSuccess and then the
\* other's video and audio StreamIDs, one of them out of its channel.
C28_Witness ==
    \E c, d \in Conns :
        /\ c # d
        /\ csid[c] # None /\ csid[d] # None
        /\ chan[c] = <<>> /\ chan[d] = <<>>
        /\ Len(sent[c]) = 3 /\ Len(sent[d]) = 3
        /\ sent[c][1].id = "JoinRoomSuccess" /\ sent[d][1].id = "JoinRoomSuccess"
        /\ sent[c][2] = OtherUserJoinedRoom(csid[d][1])
        /\ sent[c][3] = OtherUserJoinedRoom(csid[d][2])
        /\ sent[d][2] = OtherUserJoinedRoom(csid[c][1])
        /\ sent[d][3] = OtherUserJoinedRoom(csid[c][2])

\* C29: the rate limiter counts, for each source address, the datagrams that
\* pass the size check in the source's window.  A datagram changes the count of
\* its source only: by one within the window, to one when it is the first after
\* the window has run out (or the first of the source).  It is dropped, with no
\* send, nothing learned and batched, and packets_dropped raised by one, exactly
\* when it takes the count beyond 5,000; the one that starts a new window is
\* never dropped.
Counted(a) ==
    /\ a \in DOMAIN client_stats'
    /\ a \in DOMAIN client_stats => client_stats'[a] # client_stats[a]

C29_RateLimit ==
    [][ /\ \A a, b \in DOMAIN client_stats' : Counted(a) /\ Counted(b) => a = b
        /\ \A a \in DOMAIN client_stats : a \in DOMAIN client_stats'
        /\ \A a \in DOMAIN client_stats' :
              Counted(a)
                  => /\ pkts_left' = pkts_left - 1
                     /\ \/ client_stats'[a] = 1
                        \/ /\ a \in DOMAIN client_stats
                           /\ client_stats'[a] = client_stats[a] + 1
                           /\ exp_left' = exp_left
                     /\ IF client_stats'[a] > 5000
                        THEN /\ packets_dropped' = packets_dropped + 1
                             /\ udp' = IdleUdp
                             /\ udp_out' = <<>>
                             /\ batch' = batch
                             /\ rooms' = rooms
                        ELSE packets_dropped' = packets_dropped
        /\ exp_left' # exp_left
              => /\ packets_dropped' = packets_dropped
                 /\ \E a \in DOMAIN client_stats : client_stats'[a] = 1
        /\ (\A a \in DOMAIN client_stats' : ~Counted(a))
              => packets_dropped' = packets_dropped ]_vars

\* A source has had its 5,001st datagram dropped in the window in which an
\* earlier one of its datagrams was accepted and its address learned.
C29_Witness ==
    \E a \in DOMAIN client_stats :
        /\ client_stats[a] = 5001
        /\ packets_dropped = 1
        /\ exp_left = MaxExpiries
        /\ \E rid \in DOMAIN rooms : \E sid \in DOMAIN rooms[rid].video :
              rooms[rid].video[sid] = a

\* C30: a datagram of at most R+S = 8 bytes is dropped with no effect: no stream
\* table changes, no address is about to be learned, the rate-limit count of no
\* source changes, nothing is sent or batched.  A datagram of exactly R+S+1 = 9
\* bytes passes the size check: it is counted by the rate limiter and, when the
\* limit is not passed and its room has its StreamID, it goes on to be learned
\* from or forwarded.
Received == pkts_left' # pkts_left

C30_MinimumSize ==
    [][ Received =>
          LET buf == last_pkt'.buf
              from_addr == last_pkt'.from_addr
              rid == SubSeq(buf, 1, 4)
              sid == SubSeq(buf, 5, 8)
          IN  /\ Len(buf) <= 8
                    => /\ rooms' = rooms
                       /\ client_stats' = client_stats
                       /\ udp' = IdleUdp
                       /\ udp_out' = <<>>
                       /\ batch' = batch
                       /\ packets_dropped' = packets_dropped
              /\ Len(buf) = 9
                    => /\ from_addr \in DOMAIN client_stats'
                       /\ \/ client_stats'[from_addr] = 1
                          \/ /\ from_addr \in DOMAIN client_stats
                             /\ client_stats'[from_addr] = client_stats[from_addr] + 1
                       /\ (client_stats'[from_addr] <= 5000 /\ MapType(rid, sid) # "none")
                             => /\ udp'.buf = buf
                                /\ udp'.from_addr = from_addr
                                /\ \/ udp'.pc = "update"
                                   \/ udp_out' # <<>>
                                   \/ udp'.to_addrs = <<>> ]_vars

\* A datagram of 8 bytes that names a StreamID of its room has been dropped: the
\* StreamID has no address yet, while a datagram of 9 bytes from the same source
\* has had the address learned for another StreamID.
C30_Witness ==
    /\ Len(last_pkt.buf) = 8
    /\ udp = IdleUdp
    /\ \E rid \in DOMAIN rooms :
          /\ SubSeq(last_pkt.buf, 1, 4) = rid
          /\ \E sid, other \in DOMAIN rooms[rid].video :
                /\ SubSeq(last_pkt.buf, 5, 8) = sid
                /\ rooms[rid].video[sid] = None
                /\ rooms[rid].video[other] = last_pkt.from_addr

\* C31 as stated: every command that write_to_stream accepts is read back equal by
\* read_from_stream, whatever its shape, and every command read is re-encoded to
\* the bytes it was read from.
ReadBack == wrote = "ok" /\ inbox # <<>>

TooLong(cmd) ==
    /\ cmd.kind # "Simple"
    /\ \/ Len(cmd.payload) >= 256
       \/ /\ cmd.kind = "StringList"
          /\ \E i \in DOMAIN cmd.payload : Len(cmd.payload[i]) >= 256

AtTheLimits(cmd) ==
    /\ cmd.kind # "Simple"
    /\ get_payload_type(cmd.id) = cmd.kind
    /\ ~TooLong(cmd)
    /\ \/ Len(cmd.payload) \in {0, 255}
       \/ /\ cmd.kind = "StringList"
          /\ \E i \in DOMAIN cmd.payload : Len(cmd.payload[i]) \in {0, 255}

C32_LengthLimit ==
    wrote # "none"
        => /\ TooLong(outbox)
                => /\ wrote = "err"
                   /\ stream = <<>>
                   /\ inbox # <<>> => inbox[1].outcome = "eof" /\ inbox[1].bytes = <<>>
           /\ ~TooLong(outbox) => wrote = "ok"
           /\ (AtTheLimits(outbox) /\ inbox # <<>>)
                => /\ inbox[1].outcome = "ok"
                   /\ inbox[1].cmd = outbox

\* A list whose second string has 256 bytes has been refused, and the reader has
\* found the stream empty.
C32_Witness ==
    /\ wrote = "err"
    /\ outbox.kind = "StringList"
    /\ Len(outbox.payload) = 2
    /\ Len(outbox.payload[2]) = 256
    /\ inbox # <<>>
    /\ inbox[1].outcome = "eof"


\* StreamID s belongs to the session that the completed LeaveRoom of connection c
\* ran with, or to the session c held when its teardown completed, and no open
\* connection holds s in its current session.
Gone(c, s) ==
    /\ \/ pc[c] = "loop" /\ csid[c] = None /\ left[c] # None /\ s \in Range(left[c])
       \/ pc[c] = "closed" /\ csid[c] # None /\ s \in Range(csid[c])
    /\ \A c2 \in Conns : (pc[c2] # "closed" /\ csid[c2] # None) => s \notin Range(csid[c2])

\* C33: a datagram received after the LeaveRoom or the teardown of a user has
\* completed is forwarded to no address on account of a StreamID of that user: no
\* StreamID of an ended session is among the StreamIDs whose learned addresses the
\* lookup collects as the datagram's destinations.
C33_NoForwardToDeparted ==
    [][Found =>
          \A s \in Peers(DatagramRid(udp'.buf), DatagramSid(udp'.buf)), c \in Conns :
             ~Gone(c, s)
      ]_vars


\* C34: in the select loop every frame the client has written is decoded from its
\* first byte to its last and dispatched once, in order, however the bytes arrive
\* and whenever messages become ready on the outbound channel: the commands
\* dispatched so far are the first commands written, each decoded from the bytes of
\* its own frame.
C34_SelectKeepsFrames ==
    /\ Len(inbox) <= Len(written)
    /\ \A i \in DOMAIN inbox :
          /\ inbox[i].outcome = "ok"
          /\ inbox[i].cmd = written[i]
          /\ inbox[i].bytes = Encoded(written[i]).bytes


\* The step is an iteration of the listener that received the datagram buf while the
\* frame map's lock was held (locked) or free.
DeliveredAs(buf, locked) ==
    /\ rx_left' # rx_left
    /\ LET r == ListenIteration(ListenState, buf, now, locked)
       IN  /\ fragment_buffers' = r.buffers
           /\ frame_caches' = r.caches
           /\ sid_to_frame_map' = r.frames

\* The iteration that receives buf completes a frame and publishes one for its peer:
\* it would do so with no frame of the peer in the map.
Publishes(buf, locked) ==
    PacketSid(buf) \in
        DOMAIN ListenIteration([ListenState EXCEPT !.frames = MapRemove(@, PacketSid(buf))],
                               buf, now, locked).frames

\* C35: whichever of the sender's datagrams are lost, repeated or out of order,
\* a frame that the listener publishes on completing a frame with sequence s has
\* the bytes of the frame the sender encoded at sequence s.
C35_PublishedIsSent ==
    [][\A buf \in AiredDatagrams, locked \in BOOLEAN :
          (DeliveredAs(buf, locked) /\ Publishes(buf, locked))
          => \A i \in DOMAIN aired :
                aired[i].sequence = PacketSequence(buf)
                => sid_to_frame_map'[PacketSid(buf)] = aired[i].frame
      ]_vars


\* The pairs of locks of which the second may be acquired while the first is held.
LockOrder ==
    { <<"rooms", "video">>, <<"rooms", "audio">>, <<"rooms", "tx">>,
      <<"video", "tx">>, <<"audio", "tx">>, <<"batch", "stats">> }

\* The lock a task is acquiring or waiting for.
Wanted(t) == IF prog[t] # <<>> /\ Head(prog[t])[1] = "acq" THEN {Head(prog[t])[2]} ELSE {}

\* Every task with an operation in progress waits for a lock that it cannot get.
Deadlocked ==
    /\ \E t \in LockTasks : prog[t] # <<>>
    /\ \A t \in LockTasks : prog[t] # <<>> => (Waiting(t) /\ ~Grantable(t))

\* C36: no interleaving of the connection handlers, the teardowns, the packet loop
\* and the flush task deadlocks; a lock is acquired while another is held only in
\* the order registry, stream table, channel map, or batch, counters; and no task
\* waits for the registry while it holds a stream table or the channel map.
C36_LockOrder ==
    /\ ~Deadlocked
    /\ \A t \in LockTasks :
          /\ \A i \in DOMAIN holds[t] :
                /\ \A j \in DOMAIN holds[t] :
                      i < j => <<holds[t][i][1], holds[t][j][1]>> \in LockOrder
                /\ \A l \in Wanted(t) : <<holds[t][i][1], l>> \in LockOrder
          /\ "rooms" \in Wanted(t)
                => \A i \in DOMAIN holds[t] : holds[t][i][1] \notin {"video", "audio", "tx"}

\* A teardown holds the registry and a stream table and waits for the channel map,
\* which the join of another connection holds, while the packet loop waits for the
\* registry.
C36_Witness ==
    \E t \in Conns, t2 \in Conns :
        /\ [i \in DOMAIN holds[t] |-> holds[t][i][1]] = <<"rooms", "video">>
        /\ waitq["tx"] # <<>>
        /\ Head(waitq["tx"]) = t
        /\ [i \in DOMAIN holds[t2] |-> holds[t2][i][1]] = <<"tx">>
        /\ PacketTask \in Range(waitq["rooms"])


\* OtherUserJoinedRoom(s) has been written to connection m, waits on its channel, or
\* is among the notifications its join in progress is about to write.
Told(m, s) ==
    \/ s \in Range(heard[m])
    \/ OtherUserJoinedRoom(s) \in Range(chan[m])
    \/ /\ pc[m] = "joinRespond"
       /\ s \in Range(pend[m].other_video_sids) \cup Range(pend[m].other_audio_sids)

\* Connection m has joined a room once and its channel has lost no message, so that
\* Told leaves out nothing it was told.
JoinedOnce(m) ==
    /\ Cardinality({ j \in DOMAIN issued : issued[j][1] = m }) = 2
    /\ ~lagged[m]
    /\ pc[m] \in {"loop", "joinRespond", "leaveBroadcast"}

\* C37: an OtherUserLeftRoom(s) is put on a member's outbound channel only after
\* an OtherUserJoinedRoom(s) has been sent or enqueued to that member, whatever the
\* interleaving of joins, leaves, disconnects and failed writes.
C37_LeftOnlyAfterJoined ==
    [][\A m \in Conns, s \in StreamIDSpace :
          (/\ Count(chan'[m], OtherUserLeftRoom(s)) > Count(chan[m], OtherUserLeftRoom(s))
           /\ JoinedOnce(m))
          => Told(m, s)
      ]_vars

\* ---- a camera whose picture keeps changing, and a listener that joined after the
\* ---- sender's first frame
MaxLate == 40    \* frames the camera produces after the listener has joined

\* The frame that differs from KeyFrame in its last byte.
NearFrame == Bump(KeyFrame, DeltaFrameLen)

\* The camera's next picture differs from the last one: in one byte, or it is a
\* new scene whose encoding has another length.
LateFrames(last_frame) ==
    IF last_frame = KeyFrame THEN {NearFrame, FrameA}
    ELSE IF last_frame = NearFrame THEN {KeyFrame, FrameA}
    ELSE {KeyFrame}

\* udp_listener_loop lines 252-361, for the datagrams of one frame in the order
\* they were sent, as the relay forwards them
RECURSIVE ListenInOrder(_, _, _)
ListenInOrder(st, bufs, t) ==
    IF bufs = <<>> THEN st
    ELSE ListenInOrder(ListenIteration(st, ForwardPayload(Head(bufs)), t, FALSE),
                       Tail(bufs), t)

\* The sender has sent KeyFrame as its first frame, a Full one; the listener starts
\* after that with no cache, no buffer and no frame.
InitLate ==
    /\ FineIdle
    /\ NoServer
    /\ StreamIdle
    /\ tx = SendIteration([last_frame |-> None, sequence |-> 0, heartbeat_counter |-> 0],
                          PrefixA, KeyFrame).tx
    /\ tx_out = <<>>
    /\ tx_prev = None
    /\ still_run = 0
    /\ fragment_buffers = EmptyMap
    /\ frame_caches = EmptyMap
    /\ sid_to_frame_map = EmptyMap
    /\ now = 0
    /\ received = EmptyMap
    /\ aired = NotRecorded
    /\ frames_left = MaxLate
    /\ rx_left = 0

\* camera_frame_channel_rx.changed() completes: the camera has a new picture and the
\* datagrams of the frame before have been delivered.
CameraChanged ==
    /\ frames_left > 0
    /\ tx_out = <<>>
    /\ frames_left' = frames_left - 1

\* udp_send_loop lines 390-413 for the camera's new picture
SendChanged ==
    /\ CameraChanged
    /\ \E r \in { SendIteration(tx, PrefixA, frame) : frame \in LateFrames(tx.last_frame) } :
         /\ tx' = r.tx
         /\ tx_out' = r.out
    /\ tx_prev' = tx.last_frame
    /\ UNCHANGED <<still_run, aired, listen_vars, stream_vars, server_vars, fine_vars>>

\* The datagrams of the frame sent last leave the network.
Arrives ==
    /\ tx_out # <<>>
    /\ tx_out' = <<>>

\* Every datagram of the frame sent last reaches the listener, in order.
DeliverInOrder ==
    /\ Arrives
    /\ \E r \in { ListenInOrder(ListenState, tx_out, now) } :
         /\ fragment_buffers' = r.buffers
         /\ frame_caches' = r.caches
         /\ sid_to_frame_map' = r.frames
         /\ received' = [s \in DOMAIN r.buffers |->
                           IF s \in DOMAIN received THEN received[s] ELSE 0]
    /\ UNCHANGED <<tx, tx_prev, still_run, frames_left, aired, now, rx_left, stream_vars,
                   server_vars, fine_vars>>

LateNext == SendChanged \/ DeliverInOrder

\* The sender's task takes every change of the camera channel and the network
\* delivers every datagram.
LateSpec ==
    /\ InitLate
    /\ [][LateNext]_vars
    /\ WF_frames_left(CameraChanged)
    /\ WF_tx_out(Arrives)

\* The listener has published a frame of the sender.
LatePublished == PacketSid(ForwardPayload(PrefixA \o <<FrameTypeFull>>)) \in DOMAIN sid_to_frame_map

\* Whatever the number of frames: the in-order delivery of a Delta frame to a listener
\* that has published nothing leaves it with nothing published and a corrupted cache.
LateDeltaAbsorbed ==
    [][(/\ Arrives
        /\ PacketType(ForwardPayload(tx_out[1])) = FrameTypeDelta
        /\ ~LatePublished)
       => /\ ~LatePublished'
          /\ \A s \in DOMAIN frame_caches' : frame_caches'[s].corrupted
      ]_vars

MaxBatched == 2    \* datagrams the packet loop may still receive
BatchGap == 1      \* entries a batch that is nearly full lacks to BATCH_SIZE

\* What handle_packet's lookup hands to lines 276-301 (the registry itself is left
\* out): the payload of the k-th datagram of one source, and the addresses of the
\* other members of its room, one more than send_immediate takes, or one alone.
BatchAddrs == [i \in 1..(ImmediateMax + 1) |-> <<"addr", i>>]

BatchPayload(k) == ForwardPayload(PrefixA \o <<k % 256>>)

Pending(n) == [k \in 1..n |-> <<BatchPayload(k), BatchAddrs>>]

\* A batch that is flushed on the timeout alone.
SizeBlind(packets, timeout) == packets # <<>> /\ timeout

\* PacketBatch::should_flush lines 45-48; timeout tells whether BATCH_TIMEOUT has
\* elapsed since the last flush
should_flush(packets, timeout) ==
    Len(packets) >= BATCH_SIZE \/ (packets # <<>> /\ timeout)

\* The server's control part and the client left out, the relay idle.
BatchIdle ==
    /\ LocksFree
    /\ ops_left = 0
    /\ Constructed
    /\ cmds_left = 0
    /\ coll_left = 0
    /\ bad_left = 0
    /\ last_cmd = NotRecorded
    /\ udp = IdleUdp
    /\ client_stats = EmptyMap
    /\ udp_out = <<>>
    /\ packets_dropped = 0
    /\ last_pkt = NotRecorded
    /\ exp_left = 0
    /\ NoClient
    /\ loop_flush = [pc |-> "recv", sends |-> <<>>]
    /\ task_flush = <<>>
    /\ pkts_left = MaxBatched

\* The wire of the runs that do not record it.
Unrecorded == <<NotRecorded>>

\* An empty batch; the send_to calls are recorded.
InitBatch ==
    /\ BatchIdle
    /\ batch = <<>>
    /\ appended = <<>>
    /\ wire = <<>>

\* A batch that lacks BatchGap entries to BATCH_SIZE: as many datagrams have come
\* within BATCH_TIMEOUT of the last flush.  The send_to calls are not recorded.
InitFull ==
    /\ BatchIdle
    /\ batch = Pending(BATCH_SIZE - BatchGap)
    /\ appended = Pending(BATCH_SIZE - BatchGap)
    /\ wire = Unrecorded

Sent(send) == IF wire = Unrecorded THEN wire ELSE Append(wire, send)

\* handle_packet lines 282-301 for a datagram with more than three destinations,
\* to_addrs.len() > 3: the back-pressure check, add_packet and should_flush
LoopAppend ==
    /\ loop_flush.pc = "recv"
    /\ pkts_left > 0
    /\ pkts_left' = pkts_left - 1
    /\ IF Len(batch) >= BACKPRESSURE_THRESHOLD
       THEN /\ packets_dropped' = packets_dropped + 1
            /\ UNCHANGED <<batch, appended, loop_flush>>
       ELSE /\ batch' = Append(batch, <<BatchPayload(Len(appended) + 1), BatchAddrs>>)
            /\ appended' = Append(appended, <<BatchPayload(Len(appended) + 1), BatchAddrs>>)
            /\ \E timeout \in BOOLEAN :
                 loop_flush' = [loop_flush EXCEPT
                                  !.pc = IF should_flush(batch', timeout)
                                         THEN "flush" ELSE "recv"]
            /\ packets_dropped' = packets_dropped
    /\ UNCHANGED <<ctl_vars, client_vars, lock_vars, udp, client_stats, udp_out, exp_left,
                   last_pkt, task_flush, wire>>

\* handle_packet lines 282-292 for a datagram with one destination: the
\* back-pressure check, then send_immediate
LoopImmediate ==
    /\ loop_flush.pc = "recv"
    /\ pkts_left > 0
    /\ pkts_left' = pkts_left - 1
    /\ IF Len(batch) >= BACKPRESSURE_THRESHOLD
       THEN /\ packets_dropped' = packets_dropped + 1
            /\ loop_flush' = loop_flush
       ELSE /\ packets_dropped' = packets_dropped
            /\ loop_flush' = [pc |-> "send",
                              sends |-> <<[dest |-> BatchAddrs[1], bytes |-> BatchPayload(0)]>>]
    /\ UNCHANGED <<ctl_vars, client_vars, lock_vars, udp, client_stats, udp_out, exp_left,
                   last_pkt, batch, appended, task_flush, wire>>

\* flush_batch lines 335-355: under the batch's lock, nothing to send, or the
\* packets taken and grouped by destination in the order the HashMap yields
LoopTake ==
    /\ loop_flush.pc = "flush"
    /\ IF batch = <<>>
       THEN /\ loop_flush' = [pc |-> "recv", sends |-> <<>>]
            /\ batch' = batch
       ELSE /\ batch' = <<>>
            /\ \E dests \in Orders(BatchDests(batch)) :
                 loop_flush' = [pc |-> "send", sends |-> FlushSends(batch, dests)]
    /\ UNCHANGED <<ctl_vars, client_vars, lock_vars, udp, client_stats, udp_out, exp_left,
                   last_pkt, pkts_left, packets_dropped, appended, task_flush, wire>>

\* flush_batch lines 361-373 / send_immediate lines 313-318: one send_to
LoopSend ==
    /\ loop_flush.pc = "send"
    /\ wire' = Sent(Head(loop_flush.sends))
    /\ loop_flush' = IF Len(loop_flush.sends) = 1 THEN [pc |-> "recv", sends |-> <<>>]
                     ELSE [loop_flush EXCEPT !.sends = Tail(@)]
    /\ UNCHANGED <<ctl_vars, client_vars, lock_vars, udp_vars, appended, task_flush>>

\* spawn_batch_flush_task lines 432-455: a tick that finds a batch to flush; the
\* packets taken under the lock and grouped
TaskTake ==
    /\ task_flush = <<>>
    /\ \E timeout \in BOOLEAN : should_flush(batch, timeout)
    /\ batch' = <<>>
    /\ \E dests \in Orders(BatchDests(batch)) : task_flush' = FlushSends(batch, dests)
    /\ UNCHANGED <<ctl_vars, client_vars, lock_vars, udp, client_stats, udp_out, exp_left,
                   last_pkt, pkts_left, packets_dropped, appended, loop_flush, wire>>

\* spawn_batch_flush_task lines 458-470: one send_to
TaskSend ==
    /\ task_flush # <<>>
    /\ wire' = Sent(Head(task_flush))
    /\ task_flush' = Tail(task_flush)
    /\ UNCHANGED <<ctl_vars, client_vars, lock_vars, udp_vars, appended, loop_flush>>

BatchNext == LoopAppend \/ LoopImmediate \/ LoopTake \/ LoopSend \/ TaskTake \/ TaskSend

BatchSpec == InitBatch /\ [][BatchNext]_vars

FullSpec == InitFull /\ [][BatchNext]_vars

\* The sends of an entry's payload to dest d that are on the wire or that a flush has
\* taken and not yet made, and the entry itself while it is in the batch.
Held(k, d) ==
    LET send == [dest |-> d, bytes |-> appended[k][1]]
    IN  Count(wire, send) + Count(loop_flush.sends, send) + Count(task_flush, send)
          + Count(batch, appended[k])

\* Every entry appended is sent once to each of its destinations, or is still to be.
BatchConserved ==
    \A k \in DOMAIN appended : \A d \in Range(appended[k][2]) : Held(k, d) = 1

\* The place among the entries appended of the payload of a send on the wire; 0
\* for a payload sent at once.
AppendedAt(bytes) ==
    IF \E k \in DOMAIN appended : appended[k][1] = bytes
    THEN CHOOSE k \in DOMAIN appended : appended[k][1] = bytes
    ELSE 0

\* The payloads sent to one destination from the batch are on the wire in the order
\* they were appended.
WireInOrder ==
    \A i, j \in DOMAIN wire :
        (/\ i < j
         /\ wire[i].dest = wire[j].dest
         /\ AppendedAt(wire[i].bytes) > 0
         /\ AppendedAt(wire[j].bytes) > 0)
        => AppendedAt(wire[i].bytes) < AppendedAt(wire[j].bytes)

\* C39: every entry appended to the batch is sent to each of its destinations exactly
\* once, whatever the interleaving of the packet loop's flush with the flush task,
\* and the payloads for one destination are sent in the order they were appended.
C39_BatchOnceInOrder == BatchConserved /\ WireInOrder

\* C40: the batch never holds more than BATCH_SIZE packets, so that the
\* back-pressure branch of handle_packet, taken at BACKPRESSURE_THRESHOLD pending
\* packets, drops no datagram, with more than three destinations or fewer.
C40_BatchBounded ==
    /\ Len(batch) <= BATCH_SIZE
    /\ Len(batch) < BACKPRESSURE_THRESHOLD
    /\ packets_dropped = 0

\* The batch has reached BATCH_SIZE and the packet loop is about to flush it, or the
\* packet loop sends a datagram at once while the batch is nearly full.
C40_Witness ==
    \/ Len(batch) = BATCH_SIZE /\ loop_flush.pc = "flush"
    \/ /\ Len(batch) = BATCH_SIZE - 1
       /\ loop_flush.pc = "send"
       /\ pkts_left = 0

====
